---------------------------- MODULE Spec2Model ----------------------------
(***************************************************************************)
(* Pair-list pipeline of crypto-trading-platform: the PairListManager, its *)
(* filter chain (PairFilter and its twelve implementations), the filter    *)
(* factory, and the background refresh loop.                               *)
(*                                                                         *)
(* Doubles are modelled as exact rationals [n, d] with d > 0 (all values   *)
(* used are small integers or ratios of them, where IEEE arithmetic is     *)
(* exact as far as the comparisons made here are concerned).               *)
(***************************************************************************)
EXTENDS Integers, Sequences, FiniteSets, TLC

(***************************************************************************)
(* Bounds of the model.                                                    *)
(***************************************************************************)
MaxClock == 1
MaxRefresh == 2
MaxChain == 2
MaxEntries == 2
MaxLen == 3
MaxAssets == 2

(***************************************************************************)
(* Generic helpers.                                                        *)
(***************************************************************************)
Range(s) == { s[i] : i \in 1..Len(s) }

Min(a, b) == IF a < b THEN a ELSE b


Rat(n, d) == [n |-> n, d |-> d]

RatLess(a, b) == a.n * b.d < b.n * a.d

RatLeq(a, b) == a.n * b.d <= b.n * a.d

Abs(x) == IF x < 0 THEN -x ELSE x

(***************************************************************************)
(* pair_types.h: MarketInfo and TickerInfo (the fields the pipeline reads).*)
(***************************************************************************)
MarketInfo(sym, act, listed, cap, rank) ==
    [symbol |-> sym, active |-> act, listed_date |-> listed,
     market_cap |-> cap, market_cap_rank |-> rank]

TickerInfo(last, b, a, hi, lo, vol, qvol, chg) ==
    [last_price |-> last, bid |-> b, ask |-> a, high_24h |-> hi, low_24h |-> lo,
     volume_24h |-> vol, quote_volume_24h |-> qvol,
     price_change_percent_24h |-> chg]

\* TickerInfo::getVolatility: (high_24h - low_24h) / last_price, last_price > 0 here
getVolatility(t) == Rat(t.high_24h - t.low_24h, t.last_price)

\* TickerInfo::getSpreadRatio: (ask - bid) / ask, ask > 0 here
getSpreadRatio(t) == Rat(t.ask - t.bid, t.ask)

\* std::function<...> that may be empty: set = FALSE is the empty function
NoProvider == [set |-> FALSE, value |-> << >>]

Provider(v) == [set |-> TRUE, value |-> v]

\* a std::function whose call throws a std::exception: the callbacks are the
\* application's code and nothing in the pipeline wraps them
ThrowingProvider == [set |-> TRUE, value |-> << >>, throws |-> TRUE]

Throws(provider) == provider.set /\ "throws" \in DOMAIN provider

\* One day in clock units: the clock of the model counts days
HoursPerDay == 24

(***************************************************************************)
(* The filters (pair_filter.h, and their filter() in time_utils.cpp).      *)
(***************************************************************************)
StaticPairListFilter(wl) == [name |-> "StaticPairList", whitelist_ |-> wl]

VolumePairListFilter(n, key, minv) ==
    [name |-> "VolumePairList", number_assets_ |-> n, sort_key_ |-> key,
     min_value_ |-> minv]

SpreadFilter(maxr) == [name |-> "SpreadFilter", max_spread_ratio_ |-> maxr]

BlacklistFilter(bl) == [name |-> "BlacklistFilter", blacklist_ |-> bl]

PriceFilter(lo, hi) == [name |-> "PriceFilter", min_price_ |-> lo, max_price_ |-> hi]

VolatilityFilter(lo, hi) ==
    [name |-> "VolatilityFilter", min_volatility_ |-> lo, max_volatility_ |-> hi]

AgeFilter(days, prov) ==
    [name |-> "AgeFilter", min_days_listed_ |-> days, market_provider_ |-> prov]

OffsetFilter(off, n) == [name |-> "OffsetFilter", offset_ |-> off, number_assets_ |-> n]

ShuffleFilter(seed) == [name |-> "ShuffleFilter", seed_ |-> seed]

PerformanceFilter(minp, prov) ==
    [name |-> "PerformanceFilter", min_profit_ |-> minp, performance_provider_ |-> prov]

ProducerPairList(prov) == [name |-> "ProducerPairList", remote_provider_ |-> prov]

MarketCapPairList(n, maxrank, prov) ==
    [name |-> "MarketCapPairList", number_assets_ |-> n, max_rank_ |-> maxrank,
     market_provider_ |-> prov]

\* the loop of 383-389 alone, without the early return of 375-378
StaticPairListFilter_filter_strict(f, pairs) ==
    SelectSeq(pairs, LAMBDA p : p \in Range(f.whitelist_))

\* StaticPairListFilter::filter
StaticPairListFilter_filter(f, pairs) ==
    IF f.whitelist_ = << >> THEN pairs
    ELSE SelectSeq(pairs, LAMBDA p : p \in Range(f.whitelist_))

RECURSIVE BlacklistFilter_filter_first(_, _)
\* a filter that removes only the first blacklisted pair it meets
BlacklistFilter_filter_first(f, pairs) ==
    IF pairs = << >> THEN << >>
    ELSE IF Head(pairs) \in Range(f.blacklist_) THEN Tail(pairs)
         ELSE << Head(pairs) >> \o BlacklistFilter_filter_first(f, Tail(pairs))

\* BlacklistFilter::filter
BlacklistFilter_filter(f, pairs) ==
    IF f.blacklist_ = << >> THEN pairs
    ELSE SelectSeq(pairs, LAMBDA p : p \notin Range(f.blacklist_))

\* std::sort with a "greater" comparator on .value, on the short vectors used
\* here: where equal keys land is the library's choice (ties), the same at
\* every call of one build.  InsertDesc places x after ("stable") or before
\* ("reversed") the entries that compare equal to it.
RECURSIVE InsertDesc(_, _, _)
InsertDesc(x, s, ties) ==
    IF s = << >> THEN << x >>
    ELSE IF RatLess(Head(s).value, x.value)
            \/ (ties = "reversed" /\ ~RatLess(x.value, Head(s).value))
         THEN << x >> \o s
         ELSE << Head(s) >> \o InsertDesc(x, Tail(s), ties)

RECURSIVE SortDesc(_, _)
SortDesc(s, ties) ==
    IF s = << >> THEN << >>
    ELSE InsertDesc(s[Len(s)], SortDesc(SubSeq(s, 1, Len(s) - 1), ties), ties)

\* the switch on sort_key_ in VolumePairListFilter::filter
VolumeValue(key, t) ==
    CASE key = "QuoteVolume" -> Rat(t.quote_volume_24h, 1)
      [] key = "Volume"      -> Rat(t.volume_24h, 1)
      [] key = "PriceChange" -> Rat(Abs(t.price_change_percent_24h), 1)
      [] key = "Volatility"  -> getVolatility(t)

RECURSIVE PairsWithValue(_, _, _)
PairsWithValue(f, pairs, tickers) ==
    IF pairs = << >> THEN << >>
    ELSE LET p == Head(pairs)
             rest == PairsWithValue(f, Tail(pairs), tickers)
         IN IF p \notin DOMAIN tickers THEN rest
            ELSE LET v == VolumeValue(f.sort_key_, tickers[p])
                 IN IF RatLess(v, Rat(f.min_value_, 1)) THEN rest
                    ELSE << [pair |-> p, value |-> v] >> \o rest

\* VolumePairListFilter::filter as it would be without the std::sort of 453
VolumePairListFilter_filter_unsorted(f, pairs, tickers, ties) ==
    LET unsorted == PairsWithValue(f, pairs, tickers)
        count == Min(f.number_assets_, Len(unsorted))
    IN [i \in 1..(IF count < 0 THEN 0 ELSE count) |-> unsorted[i].pair]

\* VolumePairListFilter::filter
VolumePairListFilter_filter(f, pairs, tickers, ties) ==
    LET sorted == SortDesc(PairsWithValue(f, pairs, tickers), ties)
        count == Min(f.number_assets_, Len(sorted))
    IN [i \in 1..(IF count < 0 THEN 0 ELSE count) |-> sorted[i].pair]

\* the test of 513 with < in place of <=
SpreadFilter_filter_strict(f, pairs, tickers) ==
    SelectSeq(pairs, LAMBDA p :
        /\ p \in DOMAIN tickers
        /\ RatLess(getSpreadRatio(tickers[p]), Rat(f.max_spread_ratio_, 10000)))

\* SpreadFilter::filter (max_spread_ratio_ in units of 1/10000)
SpreadFilter_filter(f, pairs, tickers) ==
    SelectSeq(pairs, LAMBDA p :
        /\ p \in DOMAIN tickers
        /\ RatLeq(getSpreadRatio(tickers[p]), Rat(f.max_spread_ratio_, 10000)))

\* the loop of 591-603 as it would be if a pair without ticker were kept
PriceFilter_filter_keeping(f, pairs, tickers) ==
    SelectSeq(pairs, LAMBDA p :
        p \in DOMAIN tickers =>
            /\ tickers[p].last_price >= f.min_price_
            /\ tickers[p].last_price <= f.max_price_)

\* PriceFilter::filter
PriceFilter_filter(f, pairs, tickers) ==
    SelectSeq(pairs, LAMBDA p :
        /\ p \in DOMAIN tickers
        /\ tickers[p].last_price >= f.min_price_
        /\ tickers[p].last_price <= f.max_price_)

\* VolatilityFilter::filter (bounds in units of 1/100)
VolatilityFilter_filter(f, pairs, tickers) ==
    SelectSeq(pairs, LAMBDA p :
        /\ p \in DOMAIN tickers
        /\ RatLeq(Rat(f.min_volatility_, 100), getVolatility(tickers[p]))
        /\ RatLeq(getVolatility(tickers[p]), Rat(f.max_volatility_, 100)))

\* market_map[market.symbol] = market: the last entry of a symbol wins
RECURSIVE MarketMap(_)
MarketMap(markets) ==
    IF markets = << >> THEN << >>
    ELSE LET m == markets[Len(markets)]
             rest == MarketMap(SubSeq(markets, 1, Len(markets) - 1))
         IN [s \in (DOMAIN rest) \cup {m.symbol} |->
                IF s = m.symbol THEN m ELSE rest[s]]

\* AgeFilter::filter as it would be if the early return of 671-675 gave the
\* empty list
AgeFilter_filter_needing(f, pairs, now) ==
    IF ~f.market_provider_.set THEN << >>
    ELSE LET market_map == MarketMap(f.market_provider_.value)
         IN SelectSeq(pairs, LAMBDA p :
                /\ p \in DOMAIN market_map
                /\ (now - market_map[p].listed_date) \div HoursPerDay
                       >= f.min_days_listed_)

\* AgeFilter::filter; the clock `now` and listed_date are in hours
AgeFilter_filter(f, pairs, now) ==
    IF ~f.market_provider_.set THEN pairs
    ELSE LET market_map == MarketMap(f.market_provider_.value)
         IN SelectSeq(pairs, LAMBDA p :
                /\ p \in DOMAIN market_map
                /\ (now - market_map[p].listed_date) \div HoursPerDay
                       >= f.min_days_listed_)

\* what pairs[i] of line 738 gives for an i that is not a position of the
\* vector (operator[] does not check; the read is undefined, and when the
\* process survives it the string is not an element of the input)
OutOfRange == "<out of range>"

\* OffsetFilter::filter: start (730) is negative when offset_ is, and the loop
\* of 736-739 copies pairs[i] for every i from start to end - 1
OffsetFilter_filter(f, pairs) ==
    LET start == Min(f.offset_, Len(pairs))
        end == IF f.number_assets_ > 0
               THEN Min(start + f.number_assets_, Len(pairs))
               ELSE Len(pairs)
    IN [k \in 1..(IF start < end THEN end - start ELSE 0) |->
          IF start + k >= 1 THEN pairs[start + k] ELSE OutOfRange]

\* the largest int (number_assets_, offset_ and the sum of 733 are int)
IntMax == 2147483647

\* whether start + number_assets_ of line 733 leaves the range of int
OffsetFilter_overflows(f, pairs) ==
    /\ f.number_assets_ > 0
    /\ Min(f.offset_, Len(pairs)) > 0
    /\ f.number_assets_ > IntMax - Min(f.offset_, Len(pairs))

\* OffsetFilter::filter, the set of lists it can return: the signed overflow
\* of start + number_assets_ is undefined; the build either wraps the sum to
\* a negative end, and the loop of 736 never runs, or takes the sum for a
\* large one, and end is pairs.size()
OffsetFilter_results(f, pairs) ==
    IF OffsetFilter_overflows(f, pairs)
    THEN { << >>, OffsetFilter_filter([f EXCEPT !.number_assets_ = 0], pairs) }
    ELSE { OffsetFilter_filter(f, pairs) }

\* OffsetFilter::filter, the positions (counted from 0) of pairs the loop of
\* 736-739 reads: one set for every end the build can compute
OffsetFilter_reads(f, pairs) ==
    LET start == Min(f.offset_, Len(pairs))
        end == IF f.number_assets_ > 0
               THEN Min(start + f.number_assets_, Len(pairs))
               ELSE Len(pairs)
    IN IF OffsetFilter_overflows(f, pairs)
       THEN { { }, start..(Len(pairs) - 1) }
       ELSE { start..(end - 1) }

\* all orders of a list: what std::shuffle can return
Orders(s) ==
    { [i \in 1..Len(s) |-> s[p[i]]] :
        p \in { q \in [1..Len(s) -> 1..Len(s)] : Range(q) = 1..Len(s) } }

\* std::shuffle with std::mt19937 g(seed_): one fixed order per seed and length
\* (here the rotation by seed_), the same at every call
SeededShuffle(s, seed) ==
    IF s = << >> THEN s
    ELSE [i \in 1..Len(s) |-> s[((i - 1 + seed) % Len(s)) + 1]]

\* ShuffleFilter::filter as it would be if the seed were never used
ShuffleFilter_filter_unseeded(f, pairs) == Orders(pairs)

\* ShuffleFilter::filter: the set of lists it can return
ShuffleFilter_filter(f, pairs) ==
    IF f.seed_ = 0 THEN Orders(pairs) ELSE { SeededShuffle(pairs, f.seed_) }

\* the loop of 809-827 as it would be if a pair without a score were dropped
PerformanceFilter_filter_scored(f, pairs) ==
    IF ~f.performance_provider_.set THEN pairs
    ELSE LET performance_map == f.performance_provider_.value
         IN SelectSeq(pairs, LAMBDA p :
                /\ p \in DOMAIN performance_map
                /\ performance_map[p] >= f.min_profit_)

\* PerformanceFilter::filter (the provider's value is a map symbol -> score)
PerformanceFilter_filter(f, pairs) ==
    IF ~f.performance_provider_.set THEN pairs
    ELSE LET performance_map == f.performance_provider_.value
         IN SelectSeq(pairs, LAMBDA p :
                \/ p \notin DOMAIN performance_map
                \/ performance_map[p] >= f.min_profit_)

\* ProducerPairList::filter
ProducerPairList_filter(f, pairs) ==
    IF ~f.remote_provider_.set THEN << >> ELSE f.remote_provider_.value

RECURSIVE PairsWithCap_unranked(_, _, _)
\* the loop of 900-916 as it would be without the test market_cap_rank > 0
PairsWithCap_unranked(f, pairs, market_map) ==
    IF pairs = << >> THEN << >>
    ELSE LET p == Head(pairs)
             rest == PairsWithCap_unranked(f, Tail(pairs), market_map)
         IN IF p \notin DOMAIN market_map THEN rest
            ELSE IF market_map[p].market_cap_rank <= f.max_rank_
                 THEN << [pair |-> p, value |-> Rat(market_map[p].market_cap, 1)] >>
                      \o rest
                 ELSE rest

RECURSIVE PairsWithCap(_, _, _)
PairsWithCap(f, pairs, market_map) ==
    IF pairs = << >> THEN << >>
    ELSE LET p == Head(pairs)
             rest == PairsWithCap(f, Tail(pairs), market_map)
         IN IF p \notin DOMAIN market_map THEN rest
            ELSE IF market_map[p].market_cap_rank > 0
                    /\ market_map[p].market_cap_rank <= f.max_rank_
                 THEN << [pair |-> p, value |-> Rat(market_map[p].market_cap, 1)] >>
                      \o rest
                 ELSE rest

\* MarketCapPairList::filter
MarketCapPairList_filter(f, pairs, ties) ==
    IF ~f.market_provider_.set THEN pairs
    ELSE LET sorted == SortDesc(PairsWithCap(f, pairs,
                                    MarketMap(f.market_provider_.value)), ties)
             count == Min(f.number_assets_, Len(sorted))
         IN [i \in 1..(IF count < 0 THEN 0 ELSE count) |-> sorted[i].pair]

\* PairFilter::filter, the virtual call: the set of lists filter f can return
\* for the working set `pairs`, the ticker snapshot, the clock and the
\* library's tie order
FilterResults(f, pairs, tickers, now, ties) ==
    CASE f.name = "StaticPairList"    -> { StaticPairListFilter_filter(f, pairs) }
      [] f.name = "VolumePairList"    -> { VolumePairListFilter_filter(f, pairs, tickers, ties) }
      [] f.name = "SpreadFilter"      -> { SpreadFilter_filter(f, pairs, tickers) }
      [] f.name = "BlacklistFilter"   -> { BlacklistFilter_filter(f, pairs) }
      [] f.name = "PriceFilter"       -> { PriceFilter_filter(f, pairs, tickers) }
      [] f.name = "VolatilityFilter"  -> { VolatilityFilter_filter(f, pairs, tickers) }
      [] f.name = "AgeFilter"         -> { AgeFilter_filter(f, pairs, now) }
      [] f.name = "OffsetFilter"      -> OffsetFilter_results(f, pairs)
      [] f.name = "ShuffleFilter"     -> ShuffleFilter_filter(f, pairs)
      [] f.name = "PerformanceFilter" -> { PerformanceFilter_filter(f, pairs) }
      [] f.name = "ProducerPairList"  -> { ProducerPairList_filter(f, pairs) }
      [] f.name = "MarketCapPairList" -> { MarketCapPairList_filter(f, pairs, ties) }

(***************************************************************************)
(* nlohmann::json values, as far as configure and loadFromConfig read them.*)
(* Numbers are integers here (in the unit of the field they configure).    *)
(***************************************************************************)
JNull == [type |-> "null", val |-> 0]

JNum(n) == [type |-> "number", val |-> n]

JStr(str) == [type |-> "string", val |-> str]

JArr(elems) == [type |-> "array", val |-> elems]

JObj(members) == [type |-> "object", val |-> members]

\* json::contains(key): false for anything that is not an object
contains(j, key) == j.type = "object" /\ key \in DOMAIN j.val

\* whether j.get<T>() throws json::type_error: get<int>, get<unsigned>,
\* get<double> ("number") accept numbers and booleans, get<std::string> only
\* strings, get<std::vector<std::string>> ("strings") arrays of strings
GetThrows(j, kind) ==
    CASE kind = "number"  -> j.type \notin { "number", "boolean" }
      [] kind = "string"  -> j.type # "string"
      [] kind = "strings" -> \/ j.type # "array"
                             \/ \E i \in 1..Len(j.val) : j.val[i].type # "string"

\* the keys a filter's configure reads with get<T>(), in the order it reads
\* them; whitelist and blacklist are read only when they are arrays
ConfigureReads(name) ==
    CASE name = "StaticPairList"    -> << << "whitelist", "strings" >> >>
      [] name = "VolumePairList"    -> << << "number_assets", "number" >>,
                                          << "min_value", "number" >>,
                                          << "refresh_period", "number" >>,
                                          << "sort_key", "string" >> >>
      [] name = "SpreadFilter"      -> << << "max_spread_ratio", "number" >> >>
      [] name = "BlacklistFilter"   -> << << "blacklist", "strings" >> >>
      [] name = "PriceFilter"       -> << << "min_price", "number" >>,
                                          << "max_price", "number" >> >>
      [] name = "VolatilityFilter"  -> << << "min_volatility", "number" >>,
                                          << "max_volatility", "number" >> >>
      [] name = "AgeFilter"         -> << << "min_days_listed", "number" >> >>
      [] name = "OffsetFilter"      -> << << "offset", "number" >>,
                                          << "number_assets", "number" >> >>
      [] name = "ShuffleFilter"     -> << << "seed", "number" >> >>
      [] name = "PerformanceFilter" -> << << "min_profit", "number" >> >>
      [] name = "ProducerPairList"  -> << << "producer_name", "string" >> >>
      [] name = "MarketCapPairList" -> << << "number_assets", "number" >>,
                                          << "max_rank", "number" >> >>

\* whether filter->configure(config) throws
configure_throws(name, config) ==
    \E i \in 1..Len(ConfigureReads(name)) :
        LET key == ConfigureReads(name)[i][1]
            kind == ConfigureReads(name)[i][2]
        IN /\ contains(config, key)
           /\ kind = "strings" => config.val[key].type = "array"
           /\ GetThrows(config.val[key], kind)

\* the value configure stores for `key`, or the value the field had
Option(config, key, old) ==
    IF contains(config, key) THEN config.val[key].val ELSE old

\* the same for whitelist and blacklist: taken only from an array
ListOption(config, key, old) ==
    IF contains(config, key) /\ config.val[key].type = "array"
    THEN [i \in 1..Len(config.val[key].val) |-> config.val[key].val[i].val]
    ELSE old

\* VolumePairListFilter::configure, 487-494: an unknown sort_key keeps the old
SortKeyOption(config, old) ==
    IF ~contains(config, "sort_key") THEN old
    ELSE LET key == config.val["sort_key"].val
         IN CASE key = "quoteVolume" -> "QuoteVolume"
              [] key = "volume"      -> "Volume"
              [] key = "priceChange" -> "PriceChange"
              [] key = "volatility"  -> "Volatility"
              [] OTHER               -> old

\* PairFilter::configure, the virtual call, where it does not throw: filter f
\* with the fields the configuration names replaced
configure(f, config) ==
    CASE f.name = "StaticPairList" ->
           StaticPairListFilter(ListOption(config, "whitelist", f.whitelist_))
      [] f.name = "VolumePairList" ->
           VolumePairListFilter(Option(config, "number_assets", f.number_assets_),
                                SortKeyOption(config, f.sort_key_),
                                Option(config, "min_value", f.min_value_))
      [] f.name = "SpreadFilter" ->
           SpreadFilter(Option(config, "max_spread_ratio", f.max_spread_ratio_))
      [] f.name = "BlacklistFilter" ->
           BlacklistFilter(ListOption(config, "blacklist", f.blacklist_))
      [] f.name = "PriceFilter" ->
           PriceFilter(Option(config, "min_price", f.min_price_),
                       Option(config, "max_price", f.max_price_))
      [] f.name = "VolatilityFilter" ->
           VolatilityFilter(Option(config, "min_volatility", f.min_volatility_),
                            Option(config, "max_volatility", f.max_volatility_))
      [] f.name = "AgeFilter" ->
           AgeFilter(Option(config, "min_days_listed", f.min_days_listed_),
                     f.market_provider_)
      [] f.name = "OffsetFilter" ->
           OffsetFilter(Option(config, "offset", f.offset_),
                        Option(config, "number_assets", f.number_assets_))
      [] f.name = "ShuffleFilter" ->
           ShuffleFilter(Option(config, "seed", f.seed_))
      [] f.name = "PerformanceFilter" ->
           PerformanceFilter(Option(config, "min_profit", f.min_profit_),
                             f.performance_provider_)
      [] f.name = "ProducerPairList" -> f
      [] f.name = "MarketCapPairList" ->
           MarketCapPairList(Option(config, "number_assets", f.number_assets_),
                             Option(config, "max_rank", f.max_rank_),
                             f.market_provider_)

\* std::numeric_limits<double>::max(), in the model's units
DoubleMax == 1000000

\* the names PairFilterFactory::create knows
KnownMethods ==
    { "StaticPairList", "VolumePairList", "SpreadFilter", "BlacklistFilter",
      "PriceFilter", "VolatilityFilter", "AgeFilter", "OffsetFilter",
      "ShuffleFilter", "PerformanceFilter", "ProducerPairList",
      "MarketCapPairList" }

\* a null std::shared_ptr<PairFilter>
NoFilter == [name |-> "nullptr"]

\* PairFilterFactory::create: a default-constructed filter (the member
\* initialisers of pair_filter.h), or nullptr
create(method) ==
    CASE method = "StaticPairList"    -> StaticPairListFilter(<< >>)
      [] method = "VolumePairList"    -> VolumePairListFilter(20, "QuoteVolume", 0)
      [] method = "SpreadFilter"      -> SpreadFilter(50)
      [] method = "BlacklistFilter"   -> BlacklistFilter(<< >>)
      [] method = "PriceFilter"       -> PriceFilter(0, DoubleMax)
      [] method = "VolatilityFilter"  -> VolatilityFilter(0, DoubleMax)
      [] method = "AgeFilter"         -> AgeFilter(10, NoProvider)
      [] method = "OffsetFilter"      -> OffsetFilter(0, 0)
      [] method = "ShuffleFilter"     -> ShuffleFilter(0)
      [] method = "PerformanceFilter" -> PerformanceFilter(0, NoProvider)
      [] method = "ProducerPairList"  -> ProducerPairList(NoProvider)
      [] method = "MarketCapPairList" -> MarketCapPairList(20, 100, NoProvider)
      [] OTHER                        -> NoFilter

\* PairFilterFactory::createFromConfig: [threw, filter]; filter is NoFilter
\* when the entry is skipped
createFromConfig(config) ==
    IF ~contains(config, "method")
    THEN [threw |-> FALSE, filter |-> NoFilter]
    ELSE IF GetThrows(config.val["method"], "string")
    THEN [threw |-> TRUE, filter |-> NoFilter]
    ELSE LET filter == create(config.val["method"].val)
         IN IF filter = NoFilter
            THEN [threw |-> FALSE, filter |-> NoFilter]
            ELSE IF configure_throws(filter.name, config)
            THEN [threw |-> TRUE, filter |-> NoFilter]
            ELSE [threw |-> FALSE, filter |-> configure(filter, config)]

\* what getStatistics returns before anything was read
NoStatistics ==
    [pair_count |-> 0, filter_count |-> 0, refresh_count |-> 0,
     total_filter_executions |-> 0, last_refresh_time |-> 0,
     auto_refresh_running |-> FALSE, refresh_interval |-> 0, filters |-> << >>]

(***************************************************************************)
(* PairListManager (pair_list_manager.h, and its methods in time_utils.cpp)*)
(***************************************************************************)
VARIABLES
    mutex_,                 \* std::mutex: the thread holding it, or "free"
    pairs_,                 \* the published list
    filters_,               \* the filter chain
    ticker_provider_,       \* std::function, NoProvider when empty
    market_provider_,       \* std::function, NoProvider when empty
    last_refresh_time_,
    auto_refresh_running_,  \* std::atomic<bool>
    auto_refresh_thread_,   \* std::unique_ptr<std::thread>
    refresh_interval_,
    refresh_count_,         \* std::atomic<int>
    filter_count_,          \* std::atomic<int>
    pc,                     \* where each thread is
    loc,                    \* each thread's locals
    now,                    \* std::chrono::system_clock::now(), in hours
    sort_ties,              \* how this build's std::sort orders equal keys
    crashed,                \* the process was aborted (std::terminate, a fault)
    config_mutex_,          \* ConfigManager::mutex_: the thread holding it, or "free"
    config_,                \* ConfigManager::config_
    config_file_path_       \* ConfigManager::config_file_path_

\* the members of the ConfigManager singleton (config.h, 140-142)
config_vars == << config_mutex_, config_, config_file_path_ >>

vars == << mutex_, pairs_, filters_, ticker_provider_, market_provider_,
           last_refresh_time_, auto_refresh_running_, auto_refresh_thread_,
           refresh_interval_, refresh_count_, filter_count_, pc, loc, now,
           sort_ties, crashed, config_mutex_, config_, config_file_path_ >>

Callers == { "main", "aux" }

Loops == { "loop1", "loop2" }

Threads == Callers \cup Loops

\* auto_refresh_thread_ == nullptr
NoThread == [thread |-> "none", joinable |-> FALSE]

(***************************************************************************)
(* ConfigManager (config.h, config.cpp): values and pure helpers.          *)
(* A std::string is the sequence of its pieces: "." is the separator       *)
(* character, any other piece stands for a run of characters without ".".  *)
(* The members of a configuration object are named by such strings.        *)
(***************************************************************************)
\* a text handed to json::parse: it parses to `json`, or parse throws
Text(j) == [valid |-> TRUE, json |-> j]

BadText == [valid |-> FALSE, json |-> JNull]

NoText == BadText

\* the position of the first "." of s, 0 when it has none
FirstDot(s) ==
    IF \E i \in 1..Len(s) : s[i] = "."
    THEN CHOOSE i \in 1..Len(s) : s[i] = "." /\ \A j \in 1..(i - 1) : s[j] # "."
    ELSE 0

RECURSIVE SplitKey(_)
\* 154-161 (and 182-189): while (std::getline(iss, token, '.')) push_back:
\* the pieces between the dots; nothing is read once the stream is at its end
SplitKey(key) ==
    IF key = << >> THEN << >>
    ELSE LET i == FirstDot(key)
         IN IF i = 0 THEN << key >>
            ELSE << SubSeq(key, 1, i - 1) >> \o SplitKey(SubSeq(key, i + 1, Len(key)))

RECURSIVE Descend(_, _)
\* 163-176: the walk of getValue from `current` along the tokens
Descend(current, keys) ==
    IF keys = << >> THEN current
    ELSE IF contains(current, Head(keys))
         THEN Descend(current.val[Head(keys)], Tail(keys))
         ELSE JNull

\* ConfigManager::getValue(key) on the configuration `config`
getValue(config, key) == Descend(config, SplitKey(key))

\* the members of j when it is an object, none otherwise
Members(j) == IF j.type = "object" THEN j.val ELSE << >>

RECURSIVE Put(_, _, _)
\* 197-218: the walk of setValue, which makes an object of whatever stands
\* in the way, and the assignment of the last token
Put(current, keys, value) ==
    LET base == Members(current)
        k == Head(keys)
        child == IF k \in DOMAIN base /\ base[k].type = "object"
                 THEN base[k] ELSE JObj(<< >>)
        put == IF Len(keys) = 1 THEN value ELSE Put(child, Tail(keys), value)
    IN JObj([m \in (DOMAIN base) \cup { k } |-> IF m = k THEN put ELSE base[m]])

\* ConfigManager::setValue(key, value) on the configuration `config`
setValue(config, key, value) ==
    IF SplitKey(key) = << >> THEN config ELSE Put(config, SplitKey(key), value)

RECURSIVE merge_patch(_, _)
\* json::merge_patch (RFC 7386), called at 34 and 60
merge_patch(target, patch) ==
    IF patch.type # "object" THEN patch
    ELSE LET base == Members(target)
             kept == { m \in (DOMAIN base) \cup (DOMAIN patch.val) :
                         m \in DOMAIN patch.val => patch.val[m].type # "null" }
         IN JObj([m \in kept |->
                    IF m \notin DOMAIN patch.val THEN base[m]
                    ELSE merge_patch(IF m \in DOMAIN base THEN base[m] ELSE JNull,
                                     patch.val[m])])

\* 31-39 and 58-66: the new configuration after a successful parse
Loaded(config, new_config, merge) ==
    IF merge /\ config.type # "null" THEN merge_patch(config, new_config)
    ELSE new_config

\* json::clear(): the value becomes the empty value of its own type
json_clear(j) ==
    CASE j.type = "object" -> JObj(<< >>)
      [] j.type = "array"  -> JArr(<< >>)
      [] j.type = "string" -> JStr("")
      [] j.type = "number" -> JNum(0)
      [] OTHER -> j

\* ConfigManager::has(key) on the configuration `config` (100-101)
has(config, key) == getValue(config, key).type # "null"

\* the locals of a thread between two calls
NoLocals ==
    [all_pairs |-> << >>, tickers |-> << >>, filtered_pairs |-> << >>,
     chain |-> << >>, it |-> 0, arg |-> 0, seen |-> << >>,
     cfg |-> JNull, filter |-> NoFilter, time |-> 0, stats |-> NoStatistics,
     key |-> << >>, keys |-> << >>, value |-> JNull, text |-> NoText,
     merge |-> FALSE, path |-> "", result |-> "none"]

\* where a call returns to: a caller is idle again, the loop goes on to sleep
Return(t) == IF t \in Loops THEN "l_sleep" ELSE "idle"

Running(t) == ~crashed /\ t \in Threads

(***************************************************************************)
(* PairListManager::refresh, time_utils.cpp 190-250, one action per step.  *)
(***************************************************************************)
\* refresh() as it would be with the lock taken on entry
refresh_call_locking(t) ==
    /\ Running(t) /\ t \in Callers /\ pc[t] = "idle"
    /\ refresh_count_ < MaxRefresh
    /\ mutex_ = "free"
    /\ mutex_' = t
    /\ pc' = [pc EXCEPT ![t] = "r_markets"]
    /\ UNCHANGED << pairs_, filters_, ticker_provider_, market_provider_,
                    last_refresh_time_, auto_refresh_running_, auto_refresh_thread_,
                    refresh_interval_, refresh_count_, filter_count_, loc, now,
                    sort_ties, crashed >>
    /\ UNCHANGED config_vars

\* a caller enters refresh()
refresh_call(t) ==
    /\ Running(t) /\ t \in Callers /\ pc[t] = "idle"
    /\ refresh_count_ < MaxRefresh
    /\ pc' = [pc EXCEPT ![t] = "r_markets"]
    /\ UNCHANGED << mutex_, pairs_, filters_, ticker_provider_, market_provider_,
                    last_refresh_time_, auto_refresh_running_, auto_refresh_thread_,
                    refresh_interval_, refresh_count_, filter_count_, loc, now,
                    sort_ties, crashed >>
    /\ UNCHANGED config_vars

\* the symbols of the active markets, in provider order (197-207)
RECURSIVE ActiveSymbols(_)
ActiveSymbols(markets) ==
    IF markets = << >> THEN << >>
    ELSE (IF Head(markets).active THEN << Head(markets).symbol >> ELSE << >>)
         \o ActiveSymbols(Tail(markets))

\* 197-213: the market provider is called (no lock held); with no active pair
\* the run ends here
refresh_markets(t) ==
    /\ Running(t) /\ pc[t] = "r_markets"
    /\ LET all_pairs == IF market_provider_.set
                        THEN ActiveSymbols(market_provider_.value) ELSE << >>
       IN IF Throws(market_provider_)
          THEN /\ pc' = [pc EXCEPT ![t] = "r_threw"]
               /\ loc' = loc
          ELSE IF all_pairs = << >>
          THEN /\ pc' = [pc EXCEPT ![t] = "r_nopairs"]
               /\ loc' = loc
          ELSE /\ pc' = [pc EXCEPT ![t] = "r_tickers"]
               /\ loc' = [loc EXCEPT ![t].all_pairs = all_pairs]
    /\ UNCHANGED << mutex_, pairs_, filters_, ticker_provider_, market_provider_,
                    last_refresh_time_, auto_refresh_running_, auto_refresh_thread_,
                    refresh_interval_, refresh_count_, filter_count_, now,
                    sort_ties, crashed >>
    /\ UNCHANGED config_vars

\* the early return as it would be if it published the empty list
refresh_nopairs_clearing(t) ==
    /\ Running(t) /\ pc[t] = "r_nopairs"
    /\ pairs_' = << >>
    /\ pc' = [pc EXCEPT ![t] = Return(t)]
    /\ UNCHANGED << mutex_, filters_, ticker_provider_, market_provider_,
                    last_refresh_time_, auto_refresh_running_, auto_refresh_thread_,
                    refresh_interval_, refresh_count_, filter_count_, loc, now,
                    sort_ties, crashed >>
    /\ UNCHANGED config_vars

\* 209-213: LOG_WARN and return, nothing is published
refresh_nopairs(t) ==
    /\ Running(t) /\ pc[t] = "r_nopairs"
    /\ pc' = [pc EXCEPT ![t] = Return(t)]
    /\ UNCHANGED << mutex_, pairs_, filters_, ticker_provider_, market_provider_,
                    last_refresh_time_, auto_refresh_running_, auto_refresh_thread_,
                    refresh_interval_, refresh_count_, filter_count_, loc, now,
                    sort_ties, crashed >>
    /\ UNCHANGED config_vars

\* 217-228: the ticker provider is called (no lock held), the working set is
\* seeded and the range-for takes begin() and end() of filters_ (no lock held)
refresh_tickers(t) ==
    /\ Running(t) /\ pc[t] = "r_tickers"
    /\ IF Throws(ticker_provider_)
       THEN /\ pc' = [pc EXCEPT ![t] = "r_threw"]
            /\ loc' = loc
       ELSE /\ loc' = [loc EXCEPT ![t].tickers = IF ticker_provider_.set
                                                 THEN ticker_provider_.value
                                                 ELSE << >>,
                                  ![t].filtered_pairs = loc[t].all_pairs,
                                  ![t].chain = filters_,
                                  ![t].it = 1]
            /\ pc' = [pc EXCEPT ![t] = "r_loop"]
    /\ UNCHANGED << mutex_, pairs_, filters_, ticker_provider_, market_provider_,
                    last_refresh_time_, auto_refresh_running_, auto_refresh_thread_,
                    refresh_interval_, refresh_count_, filter_count_, now,
                    sort_ties, crashed >>
    /\ UNCHANGED config_vars

\* the fold has ended: the chain is exhausted or the working set is empty (230)
FoldDone(t) ==
    \/ loc[t].it > Len(loc[t].chain)
    \/ loc[t].filtered_pairs = << >>

\* 228-233: the loop head.  The iterator is dereferenced without the lock: if
\* filters_ was changed since begin() was taken, the read is of freed or
\* stale storage and yields the old element, or the element the vector now
\* holds in that slot (clear() keeps the storage and push_back refills it),
\* or faults.
refresh_loop(t) ==
    /\ Running(t) /\ pc[t] = "r_loop"
    /\ IF FoldDone(t)
       THEN /\ pc' = [pc EXCEPT ![t] = "r_lock"]
            /\ UNCHANGED << crashed, loc >>
       ELSE \/ /\ pc' = [pc EXCEPT ![t] = "r_filter"]
               /\ UNCHANGED << crashed, loc >>
            \/ /\ filters_ # loc[t].chain
               /\ loc[t].it <= Len(filters_)
               /\ loc' = [loc EXCEPT ![t].chain[loc[t].it] = filters_[loc[t].it]]
               /\ pc' = [pc EXCEPT ![t] = "r_filter"]
               /\ UNCHANGED crashed
            \/ /\ filters_ # loc[t].chain
               /\ crashed' = TRUE
               /\ UNCHANGED << pc, loc >>
    /\ UNCHANGED << mutex_, pairs_, filters_, ticker_provider_, market_provider_,
                    last_refresh_time_, auto_refresh_running_, auto_refresh_thread_,
                    refresh_interval_, refresh_count_, filter_count_, now,
                    sort_ties >>
    /\ UNCHANGED config_vars

\* the call filter->filter(...) of 235 throws: the filter's own provider does
FilterThrows(f) ==
    CASE f.name \in { "AgeFilter", "MarketCapPairList" } -> Throws(f.market_provider_)
      [] f.name = "PerformanceFilter" -> Throws(f.performance_provider_)
      [] f.name = "ProducerPairList" -> Throws(f.remote_provider_)
      [] OTHER -> FALSE

\* the fold as it would be if it worked on pairs_ itself
refresh_filter_inplace(t) ==
    /\ Running(t) /\ pc[t] = "r_filter"
    /\ \E out \in FilterResults(loc[t].chain[loc[t].it], loc[t].filtered_pairs,
                                loc[t].tickers, now, sort_ties) :
          /\ loc' = [loc EXCEPT ![t].filtered_pairs = out, ![t].it = loc[t].it + 1]
          /\ pairs_' = out
    /\ filter_count_' = filter_count_ + 1
    /\ pc' = [pc EXCEPT ![t] = "r_loop"]
    /\ UNCHANGED << mutex_, filters_, ticker_provider_, market_provider_,
                    last_refresh_time_, auto_refresh_running_, auto_refresh_thread_,
                    refresh_interval_, refresh_count_, now, sort_ties, crashed >>
    /\ UNCHANGED config_vars

\* 235-236: filter->filter(filtered_pairs, tickers) returns (no lock held);
\* filter_count_++
refresh_filter(t) ==
    /\ Running(t) /\ pc[t] = "r_filter"
    /\ IF FilterThrows(loc[t].chain[loc[t].it])
       THEN /\ pc' = [pc EXCEPT ![t] = "r_threw"]
            /\ UNCHANGED << loc, filter_count_ >>
       ELSE /\ \E out \in FilterResults(loc[t].chain[loc[t].it],
                                        loc[t].filtered_pairs,
                                        loc[t].tickers, now, sort_ties) :
                  loc' = [loc EXCEPT ![t].filtered_pairs = out,
                                     ![t].it = loc[t].it + 1]
            /\ filter_count_' = filter_count_ + 1
            /\ pc' = [pc EXCEPT ![t] = "r_loop"]
    /\ UNCHANGED << mutex_, pairs_, filters_, ticker_provider_, market_provider_,
                    last_refresh_time_, auto_refresh_running_, auto_refresh_thread_,
                    refresh_interval_, refresh_count_, now, sort_ties, crashed >>
    /\ UNCHANGED config_vars

\* refresh() left by an exception that the loop does not catch: the
\* background thread ends
refresh_threw_ending(t) ==
    /\ Running(t) /\ pc[t] = "r_threw"
    /\ pc' = [pc EXCEPT ![t] = IF t \in Loops THEN "l_exit" ELSE "idle"]
    /\ loc' = [loc EXCEPT ![t].all_pairs = << >>, ![t].tickers = << >>,
                          ![t].filtered_pairs = << >>, ![t].chain = << >>,
                          ![t].it = 0]
    /\ UNCHANGED << mutex_, pairs_, filters_, ticker_provider_, market_provider_,
                    last_refresh_time_, auto_refresh_running_, auto_refresh_thread_,
                    refresh_interval_, refresh_count_, filter_count_, now,
                    sort_ties, crashed >>
    /\ UNCHANGED config_vars

\* refresh() has no handler: an exception thrown at 199, 221 or 235 unwinds
\* its locals and leaves it.  In the background thread the handler of
\* 313-316 catches it and the loop goes on to sleep; a direct caller gets
\* the exception ("r_threw" is refresh() being left by it).
refresh_threw(t) ==
    /\ Running(t) /\ pc[t] = "r_threw"
    /\ pc' = [pc EXCEPT ![t] = Return(t)]
    /\ loc' = [loc EXCEPT ![t].all_pairs = << >>, ![t].tickers = << >>,
                          ![t].filtered_pairs = << >>, ![t].chain = << >>,
                          ![t].it = 0]
    /\ UNCHANGED << mutex_, pairs_, filters_, ticker_provider_, market_provider_,
                    last_refresh_time_, auto_refresh_running_, auto_refresh_thread_,
                    refresh_interval_, refresh_count_, filter_count_, now,
                    sort_ties, crashed >>
    /\ UNCHANGED config_vars

\* 241: std::lock_guard<std::mutex> lock(mutex_)
refresh_lock(t) ==
    /\ Running(t) /\ pc[t] = "r_lock"
    /\ mutex_ = "free"
    /\ mutex_' = t
    /\ pc' = [pc EXCEPT ![t] = "r_publish"]
    /\ UNCHANGED << pairs_, filters_, ticker_provider_, market_provider_,
                    last_refresh_time_, auto_refresh_running_, auto_refresh_thread_,
                    refresh_interval_, refresh_count_, filter_count_, loc, now,
                    sort_ties, crashed >>
    /\ UNCHANGED config_vars

\* 242: pairs_ = filtered_pairs
refresh_publish(t) ==
    /\ Running(t) /\ pc[t] = "r_publish"
    /\ pairs_' = loc[t].filtered_pairs
    /\ pc' = [pc EXCEPT ![t] = "r_stamp"]
    /\ UNCHANGED << mutex_, filters_, ticker_provider_, market_provider_,
                    last_refresh_time_, auto_refresh_running_, auto_refresh_thread_,
                    refresh_interval_, refresh_count_, filter_count_, loc, now,
                    sort_ties, crashed >>
    /\ UNCHANGED config_vars

\* 243-244: last_refresh_time_ = now(); the lock_guard goes out of scope
refresh_stamp(t) ==
    /\ Running(t) /\ pc[t] = "r_stamp"
    /\ last_refresh_time_' = now
    /\ mutex_' = "free"
    /\ pc' = [pc EXCEPT ![t] = "r_count"]
    /\ UNCHANGED << pairs_, filters_, ticker_provider_, market_provider_,
                    auto_refresh_running_, auto_refresh_thread_,
                    refresh_interval_, refresh_count_, filter_count_, loc, now,
                    sort_ties, crashed >>
    /\ UNCHANGED config_vars

\* 246-250: refresh_count_++ and return
refresh_count(t) ==
    /\ Running(t) /\ pc[t] = "r_count"
    /\ refresh_count_' = refresh_count_ + 1
    /\ pc' = [pc EXCEPT ![t] = Return(t)]
    /\ loc' = [loc EXCEPT ![t].all_pairs = << >>, ![t].tickers = << >>,
                          ![t].filtered_pairs = << >>, ![t].chain = << >>,
                          ![t].it = 0]
    /\ UNCHANGED << mutex_, pairs_, filters_, ticker_provider_, market_provider_,
                    last_refresh_time_, auto_refresh_running_, auto_refresh_thread_,
                    refresh_interval_, filter_count_, now, sort_ties, crashed >>
    /\ UNCHANGED config_vars

(***************************************************************************)
(* The accessors getPairs, getPairCount and hasPair (252-268): each takes   *)
(* the lock, reads pairs_ and returns; `seen` is the list the call read,    *)
(* from which its result (the list, its size, a membership) is computed.    *)
(***************************************************************************)
\* 254, 260, 266: std::lock_guard<std::mutex> lock(mutex_)
getPairs_lock(t) ==
    /\ Running(t) /\ t \in Callers /\ pc[t] = "idle"
    /\ mutex_ = "free"
    /\ mutex_' = t
    /\ pc' = [pc EXCEPT ![t] = "g_read"]
    /\ UNCHANGED << pairs_, filters_, ticker_provider_, market_provider_,
                    last_refresh_time_, auto_refresh_running_, auto_refresh_thread_,
                    refresh_interval_, refresh_count_, filter_count_, loc, now,
                    sort_ties, crashed >>
    /\ UNCHANGED config_vars

\* 255, 261, 267: return pairs_ (the lock_guard goes out of scope)
getPairs_return(t) ==
    /\ Running(t) /\ pc[t] = "g_read"
    /\ loc' = [loc EXCEPT ![t].seen = pairs_]
    /\ mutex_' = "free"
    /\ pc' = [pc EXCEPT ![t] = "idle"]
    /\ UNCHANGED << pairs_, filters_, ticker_provider_, market_provider_,
                    last_refresh_time_, auto_refresh_running_, auto_refresh_thread_,
                    refresh_interval_, refresh_count_, filter_count_, now,
                    sort_ties, crashed >>
    /\ UNCHANGED config_vars

(***************************************************************************)
(* startAutoRefresh (270-286), stopAutoRefresh (288-303) and               *)
(* autoRefreshLoop (305-324).                                              *)
(***************************************************************************)
\* the intervals startAutoRefresh is called with
Intervals == { 1, 2 }

\* a caller enters startAutoRefresh(interval_seconds)
startAutoRefresh_enter(t, interval_seconds) ==
    /\ Running(t) /\ t \in Callers /\ pc[t] = "idle"
    /\ loc' = [loc EXCEPT ![t].arg = interval_seconds]
    /\ pc' = [pc EXCEPT ![t] = "s_check"]
    /\ UNCHANGED << mutex_, pairs_, filters_, ticker_provider_, market_provider_,
                    last_refresh_time_, auto_refresh_running_, auto_refresh_thread_,
                    refresh_interval_, refresh_count_, filter_count_, now,
                    sort_ties, crashed >>
    /\ UNCHANGED config_vars

\* a caller enters startAutoRefresh with one of the intervals
startAutoRefresh_call(t) ==
    \E n \in Intervals : startAutoRefresh_enter(t, n)

\* startAutoRefresh as it would be without the test of 272
startAutoRefresh_check_always(t) ==
    /\ Running(t) /\ pc[t] = "s_check"
    /\ pc' = [pc EXCEPT ![t] = "s_interval"]
    /\ UNCHANGED << mutex_, pairs_, filters_, ticker_provider_, market_provider_,
                    last_refresh_time_, auto_refresh_running_, auto_refresh_thread_,
                    refresh_interval_, refresh_count_, filter_count_, loc, now,
                    sort_ties, crashed >>
    /\ UNCHANGED config_vars

\* 272-276: if (auto_refresh_running_) return
startAutoRefresh_check(t) ==
    /\ Running(t) /\ pc[t] = "s_check"
    /\ pc' = [pc EXCEPT ![t] = IF auto_refresh_running_ THEN "idle" ELSE "s_interval"]
    /\ UNCHANGED << mutex_, pairs_, filters_, ticker_provider_, market_provider_,
                    last_refresh_time_, auto_refresh_running_, auto_refresh_thread_,
                    refresh_interval_, refresh_count_, filter_count_, loc, now,
                    sort_ties, crashed >>
    /\ UNCHANGED config_vars

\* 278: refresh_interval_ = interval_seconds (no lock held)
startAutoRefresh_interval(t) ==
    /\ Running(t) /\ pc[t] = "s_interval"
    /\ refresh_interval_' = loc[t].arg
    /\ pc' = [pc EXCEPT ![t] = "s_flag"]
    /\ UNCHANGED << mutex_, pairs_, filters_, ticker_provider_, market_provider_,
                    last_refresh_time_, auto_refresh_running_, auto_refresh_thread_,
                    refresh_count_, filter_count_, loc, now, sort_ties, crashed >>
    /\ UNCHANGED config_vars

\* 279: auto_refresh_running_ = true
startAutoRefresh_flag(t) ==
    /\ Running(t) /\ pc[t] = "s_flag"
    /\ auto_refresh_running_' = TRUE
    /\ pc' = [pc EXCEPT ![t] = "s_spawn"]
    /\ UNCHANGED << mutex_, pairs_, filters_, ticker_provider_, market_provider_,
                    last_refresh_time_, auto_refresh_thread_, refresh_interval_,
                    refresh_count_, filter_count_, loc, now, sort_ties, crashed >>
    /\ UNCHANGED config_vars

\* the id the new thread gets: one no live thread has
FreeLoop == IF pc["loop1"] = "unborn" THEN "loop1" ELSE "loop2"

\* 281-283: auto_refresh_thread_ = std::make_unique<std::thread>(...): the new
\* thread starts, then the unique_ptr drops the std::thread it held; dropping
\* a joinable std::thread calls std::terminate
startAutoRefresh_spawn(t) ==
    /\ Running(t) /\ pc[t] = "s_spawn"
    /\ \E l \in Loops : pc[l] = "unborn"
    /\ pc' = [pc EXCEPT ![t] = "idle", ![FreeLoop] = "l_while"]
    /\ auto_refresh_thread_' = [thread |-> FreeLoop, joinable |-> TRUE]
    /\ crashed' = auto_refresh_thread_.joinable
    /\ UNCHANGED << mutex_, pairs_, filters_, ticker_provider_, market_provider_,
                    last_refresh_time_, auto_refresh_running_, refresh_interval_,
                    refresh_count_, filter_count_, loc, now, sort_ties >>
    /\ UNCHANGED config_vars

\* a caller enters stopAutoRefresh() (also what ~PairListManager does, 144-147)
stopAutoRefresh_call(t) ==
    /\ Running(t) /\ t \in Callers /\ pc[t] = "idle"
    /\ pc' = [pc EXCEPT ![t] = "st_check"]
    /\ UNCHANGED << mutex_, pairs_, filters_, ticker_provider_, market_provider_,
                    last_refresh_time_, auto_refresh_running_, auto_refresh_thread_,
                    refresh_interval_, refresh_count_, filter_count_, loc, now,
                    sort_ties, crashed >>
    /\ UNCHANGED config_vars

\* 290-293: if (!auto_refresh_running_) return
stopAutoRefresh_check(t) ==
    /\ Running(t) /\ pc[t] = "st_check"
    /\ pc' = [pc EXCEPT ![t] = IF auto_refresh_running_ THEN "st_clear" ELSE "st_ret"]
    /\ UNCHANGED << mutex_, pairs_, filters_, ticker_provider_, market_provider_,
                    last_refresh_time_, auto_refresh_running_, auto_refresh_thread_,
                    refresh_interval_, refresh_count_, filter_count_, loc, now,
                    sort_ties, crashed >>
    /\ UNCHANGED config_vars

\* 295-297: auto_refresh_running_ = false; then the test
\* auto_refresh_thread_ && auto_refresh_thread_->joinable()
stopAutoRefresh_clear(t) ==
    /\ Running(t) /\ pc[t] = "st_clear"
    /\ auto_refresh_running_' = FALSE
    /\ pc' = [pc EXCEPT ![t] = IF auto_refresh_thread_.joinable
                               THEN "st_join" ELSE "st_ret"]
    /\ loc' = [loc EXCEPT ![t].arg = 0]
    /\ UNCHANGED << mutex_, pairs_, filters_, ticker_provider_, market_provider_,
                    last_refresh_time_, auto_refresh_thread_, refresh_interval_,
                    refresh_count_, filter_count_, now, sort_ties, crashed >>
    /\ UNCHANGED config_vars

\* join() as it would be if it did not wait for the thread (a detach)
stopAutoRefresh_join_nowait(t) ==
    /\ Running(t) /\ pc[t] = "st_join"
    /\ pc' = [pc EXCEPT ![t] = "st_ret"]
    /\ auto_refresh_thread_' = [auto_refresh_thread_ EXCEPT !.joinable = FALSE]
    /\ UNCHANGED << mutex_, pairs_, filters_, ticker_provider_, market_provider_,
                    last_refresh_time_, auto_refresh_running_, refresh_interval_,
                    refresh_count_, filter_count_, loc, now, sort_ties, crashed >>
    /\ UNCHANGED config_vars

\* 299: auto_refresh_thread_->join() returns once the thread has ended.  When
\* another caller has joined the same std::thread meanwhile, this second join
\* is on a thread that is no longer joinable: it returns or the process faults.
stopAutoRefresh_join(t) ==
    /\ Running(t) /\ pc[t] = "st_join"
    /\ IF auto_refresh_thread_.joinable
       THEN /\ pc[auto_refresh_thread_.thread] = "l_exit"
            /\ pc' = [pc EXCEPT ![t] = "st_ret",
                                ![auto_refresh_thread_.thread] = "unborn"]
            /\ auto_refresh_thread_' = [auto_refresh_thread_ EXCEPT !.joinable = FALSE]
            /\ UNCHANGED crashed
       ELSE /\ \E fault \in BOOLEAN : crashed' = fault
            /\ pc' = [pc EXCEPT ![t] = "st_ret"]
            /\ UNCHANGED auto_refresh_thread_
    /\ UNCHANGED << mutex_, pairs_, filters_, ticker_provider_, market_provider_,
                    last_refresh_time_, auto_refresh_running_, refresh_interval_,
                    refresh_count_, filter_count_, loc, now, sort_ties >>
    /\ UNCHANGED config_vars

\* 302-303: LOG_INFO and return; also the return of 292
stopAutoRefresh_return(t) ==
    /\ Running(t) /\ pc[t] = "st_ret"
    /\ pc' = [pc EXCEPT ![t] = "idle"]
    /\ UNCHANGED << mutex_, pairs_, filters_, ticker_provider_, market_provider_,
                    last_refresh_time_, auto_refresh_running_, auto_refresh_thread_,
                    refresh_interval_, refresh_count_, filter_count_, loc, now,
                    sort_ties, crashed >>
    /\ UNCHANGED config_vars

\* 307: while (auto_refresh_running_): into refresh() (311), or the thread ends
autoRefreshLoop_while(l) ==
    /\ Running(l) /\ pc[l] = "l_while"
    /\ auto_refresh_running_ => refresh_count_ < MaxRefresh
    /\ pc' = [pc EXCEPT ![l] = IF auto_refresh_running_ THEN "r_markets" ELSE "l_exit"]
    /\ UNCHANGED << mutex_, pairs_, filters_, ticker_provider_, market_provider_,
                    last_refresh_time_, auto_refresh_running_, auto_refresh_thread_,
                    refresh_interval_, refresh_count_, filter_count_, loc, now,
                    sort_ties, crashed >>
    /\ UNCHANGED config_vars

\* 319-322: for (i = 0; i < refresh_interval_ && auto_refresh_running_; ++i)
\* sleep one second; refresh_interval_ is read without the lock
autoRefreshLoop_sleep(l) ==
    /\ Running(l) /\ pc[l] = "l_sleep"
    /\ IF loc[l].arg < refresh_interval_ /\ auto_refresh_running_
       THEN /\ loc' = [loc EXCEPT ![l].arg = loc[l].arg + 1]
            /\ UNCHANGED pc
       ELSE /\ loc' = [loc EXCEPT ![l].arg = 0]
            /\ pc' = [pc EXCEPT ![l] = "l_while"]
    /\ UNCHANGED << mutex_, pairs_, filters_, ticker_provider_, market_provider_,
                    last_refresh_time_, auto_refresh_running_, auto_refresh_thread_,
                    refresh_interval_, refresh_count_, filter_count_, now,
                    sort_ties, crashed >>
    /\ UNCHANGED config_vars

(***************************************************************************)
(* loadFromConfig (149-176), addFilter (178-183), clearFilters (185-188),  *)
(* getLastRefreshTime (pair_list_manager.h) and getStatistics (326-348).   *)
(***************************************************************************)
\* a caller enters loadFromConfig(config)
loadFromConfig_call(t, config) ==
    /\ Running(t) /\ t \in Callers /\ pc[t] = "idle"
    /\ loc' = [loc EXCEPT ![t].cfg = config]
    /\ pc' = [pc EXCEPT ![t] = "lc_lock"]
    /\ UNCHANGED << mutex_, pairs_, filters_, ticker_provider_, market_provider_,
                    last_refresh_time_, auto_refresh_running_, auto_refresh_thread_,
                    refresh_interval_, refresh_count_, filter_count_, now,
                    sort_ties, crashed >>
    /\ UNCHANGED config_vars

\* 151: std::lock_guard<std::mutex> lock(mutex_)
loadFromConfig_lock(t) ==
    /\ Running(t) /\ pc[t] = "lc_lock"
    /\ mutex_ = "free"
    /\ mutex_' = t
    /\ pc' = [pc EXCEPT ![t] = "lc_clear"]
    /\ UNCHANGED << pairs_, filters_, ticker_provider_, market_provider_,
                    last_refresh_time_, auto_refresh_running_, auto_refresh_thread_,
                    refresh_interval_, refresh_count_, filter_count_, loc, now,
                    sort_ties, crashed >>
    /\ UNCHANGED config_vars

\* 153: clearFilters()
loadFromConfig_clear(t) ==
    /\ Running(t) /\ pc[t] = "lc_clear"
    /\ filters_' = << >>
    /\ loc' = [loc EXCEPT ![t].it = 1]
    /\ pc' = [pc EXCEPT ![t] = "lc_entry"]
    /\ UNCHANGED << mutex_, pairs_, ticker_provider_, market_provider_,
                    last_refresh_time_, auto_refresh_running_, auto_refresh_thread_,
                    refresh_interval_, refresh_count_, filter_count_, now,
                    sort_ties, crashed >>
    /\ UNCHANGED config_vars

\* the entries the loop of 158 runs over: none unless pairlist_filters is an
\* array (156)
FilterEntries(config) ==
    IF contains(config, "pairlist_filters")
       /\ config.val["pairlist_filters"].type = "array"
    THEN config.val["pairlist_filters"].val
    ELSE << >>

\* 158-166: one turn of the loop: createFromConfig(filter_config), and
\* push_back when it gave a filter.  A json::type_error thrown by
\* createFromConfig leaves loadFromConfig (the lock_guard unlocks).
loadFromConfig_entry(t) ==
    /\ Running(t) /\ pc[t] = "lc_entry"
    /\ LET entries == FilterEntries(loc[t].cfg)
           made == createFromConfig(entries[loc[t].it])
       IN IF loc[t].it > Len(entries)
          THEN /\ pc' = [pc EXCEPT ![t] = "lc_period"]
               /\ UNCHANGED << filters_, mutex_, loc >>
          ELSE IF made.threw
          THEN /\ pc' = [pc EXCEPT ![t] = "lc_threw"]
               /\ mutex_' = "free"
               /\ UNCHANGED << filters_, loc >>
          ELSE /\ filters_' = IF made.filter = NoFilter THEN filters_
                              ELSE Append(filters_, made.filter)
               /\ loc' = [loc EXCEPT ![t].it = loc[t].it + 1]
               /\ UNCHANGED << pc, mutex_ >>
    /\ UNCHANGED << pairs_, ticker_provider_, market_provider_,
                    last_refresh_time_, auto_refresh_running_, auto_refresh_thread_,
                    refresh_interval_, refresh_count_, filter_count_, now,
                    sort_ties, crashed >>
    /\ UNCHANGED config_vars

\* 170-176: refresh_interval_ = config["refresh_period"].get<int>() when the
\* key is there (a json::type_error leaves loadFromConfig), then the return
\* (the lock_guard unlocks)
loadFromConfig_period(t) ==
    /\ Running(t) /\ pc[t] = "lc_period"
    /\ LET config == loc[t].cfg
       IN IF ~contains(config, "refresh_period")
          THEN /\ pc' = [pc EXCEPT ![t] = "lc_ret"]
               /\ UNCHANGED refresh_interval_
          ELSE IF GetThrows(config.val["refresh_period"], "number")
          THEN /\ pc' = [pc EXCEPT ![t] = "lc_threw"]
               /\ UNCHANGED refresh_interval_
          ELSE /\ pc' = [pc EXCEPT ![t] = "lc_ret"]
               /\ refresh_interval_' = config.val["refresh_period"].val
    /\ mutex_' = "free"
    /\ UNCHANGED << pairs_, filters_, ticker_provider_, market_provider_,
                    last_refresh_time_, auto_refresh_running_, auto_refresh_thread_,
                    refresh_count_, filter_count_, loc, now, sort_ties, crashed >>
    /\ UNCHANGED config_vars

\* loadFromConfig is left, by its return ("lc_ret") or by the exception
\* ("lc_threw"), and the caller goes on
loadFromConfig_return(t) ==
    /\ Running(t) /\ pc[t] \in { "lc_ret", "lc_threw" }
    /\ pc' = [pc EXCEPT ![t] = "idle"]
    /\ loc' = [loc EXCEPT ![t].cfg = JNull, ![t].it = 0]
    /\ UNCHANGED << mutex_, pairs_, filters_, ticker_provider_, market_provider_,
                    last_refresh_time_, auto_refresh_running_, auto_refresh_thread_,
                    refresh_interval_, refresh_count_, filter_count_, now,
                    sort_ties, crashed >>
    /\ UNCHANGED config_vars

\* a caller enters addFilter(filter)
addFilter_call(t, filter) ==
    /\ Running(t) /\ t \in Callers /\ pc[t] = "idle"
    /\ Len(filters_) < MaxChain
    /\ loc' = [loc EXCEPT ![t].filter = filter]
    /\ pc' = [pc EXCEPT ![t] = "af_lock"]
    /\ UNCHANGED << mutex_, pairs_, filters_, ticker_provider_, market_provider_,
                    last_refresh_time_, auto_refresh_running_, auto_refresh_thread_,
                    refresh_interval_, refresh_count_, filter_count_, now,
                    sort_ties, crashed >>
    /\ UNCHANGED config_vars

\* 180: std::lock_guard<std::mutex> lock(mutex_)
addFilter_lock(t) ==
    /\ Running(t) /\ pc[t] = "af_lock"
    /\ mutex_ = "free"
    /\ mutex_' = t
    /\ pc' = [pc EXCEPT ![t] = "af_push"]
    /\ UNCHANGED << pairs_, filters_, ticker_provider_, market_provider_,
                    last_refresh_time_, auto_refresh_running_, auto_refresh_thread_,
                    refresh_interval_, refresh_count_, filter_count_, loc, now,
                    sort_ties, crashed >>
    /\ UNCHANGED config_vars

\* 181-183: filters_.push_back(filter) and return (the lock_guard unlocks)
addFilter_push(t) ==
    /\ Running(t) /\ pc[t] = "af_push"
    /\ filters_' = Append(filters_, loc[t].filter)
    /\ mutex_' = "free"
    /\ loc' = [loc EXCEPT ![t].filter = NoFilter]
    /\ pc' = [pc EXCEPT ![t] = "idle"]
    /\ UNCHANGED << pairs_, ticker_provider_, market_provider_,
                    last_refresh_time_, auto_refresh_running_, auto_refresh_thread_,
                    refresh_interval_, refresh_count_, filter_count_, now,
                    sort_ties, crashed >>
    /\ UNCHANGED config_vars

\* a caller enters clearFilters()
clearFilters_call(t) ==
    /\ Running(t) /\ t \in Callers /\ pc[t] = "idle"
    /\ filters_ # << >>
    /\ pc' = [pc EXCEPT ![t] = "cf_clear"]
    /\ UNCHANGED << mutex_, pairs_, filters_, ticker_provider_, market_provider_,
                    last_refresh_time_, auto_refresh_running_, auto_refresh_thread_,
                    refresh_interval_, refresh_count_, filter_count_, loc, now,
                    sort_ties, crashed >>
    /\ UNCHANGED config_vars

\* 187: filters_.clear(), no lock is taken
clearFilters_clear(t) ==
    /\ Running(t) /\ pc[t] = "cf_clear"
    /\ filters_' = << >>
    /\ pc' = [pc EXCEPT ![t] = "idle"]
    /\ UNCHANGED << mutex_, pairs_, ticker_provider_, market_provider_,
                    last_refresh_time_, auto_refresh_running_, auto_refresh_thread_,
                    refresh_interval_, refresh_count_, filter_count_, loc, now,
                    sort_ties, crashed >>
    /\ UNCHANGED config_vars

\* a caller enters getLastRefreshTime()
getLastRefreshTime_call(t) ==
    /\ Running(t) /\ t \in Callers /\ pc[t] = "idle"
    /\ pc' = [pc EXCEPT ![t] = "lt_read"]
    /\ UNCHANGED << mutex_, pairs_, filters_, ticker_provider_, market_provider_,
                    last_refresh_time_, auto_refresh_running_, auto_refresh_thread_,
                    refresh_interval_, refresh_count_, filter_count_, loc, now,
                    sort_ties, crashed >>
    /\ UNCHANGED config_vars

\* return last_refresh_time_, no lock is taken
getLastRefreshTime_return(t) ==
    /\ Running(t) /\ pc[t] = "lt_read"
    /\ loc' = [loc EXCEPT ![t].time = last_refresh_time_]
    /\ pc' = [pc EXCEPT ![t] = "lt_ret"]
    /\ UNCHANGED << mutex_, pairs_, filters_, ticker_provider_, market_provider_,
                    last_refresh_time_, auto_refresh_running_, auto_refresh_thread_,
                    refresh_interval_, refresh_count_, filter_count_, now,
                    sort_ties, crashed >>
    /\ UNCHANGED config_vars

\* the caller has the time point and goes on
getLastRefreshTime_done(t) ==
    /\ Running(t) /\ pc[t] = "lt_ret"
    /\ loc' = [loc EXCEPT ![t].time = 0]
    /\ pc' = [pc EXCEPT ![t] = "idle"]
    /\ UNCHANGED << mutex_, pairs_, filters_, ticker_provider_, market_provider_,
                    last_refresh_time_, auto_refresh_running_, auto_refresh_thread_,
                    refresh_interval_, refresh_count_, filter_count_, now,
                    sort_ties, crashed >>
    /\ UNCHANGED config_vars

\* 328: std::lock_guard<std::mutex> lock(mutex_)
getStatistics_lock(t) ==
    /\ Running(t) /\ t \in Callers /\ pc[t] = "idle"
    /\ mutex_ = "free"
    /\ mutex_' = t
    /\ pc' = [pc EXCEPT ![t] = "gs_read"]
    /\ UNCHANGED << pairs_, filters_, ticker_provider_, market_provider_,
                    last_refresh_time_, auto_refresh_running_, auto_refresh_thread_,
                    refresh_interval_, refresh_count_, filter_count_, loc, now,
                    sort_ties, crashed >>
    /\ UNCHANGED config_vars

\* getStatistics as it would be if "filter_count" were read from the counter
\* filter_count_ instead of filters_.size()
getStatistics_return_counter(t) ==
    /\ Running(t) /\ pc[t] = "gs_read"
    /\ loc' = [loc EXCEPT ![t].stats =
                 [pair_count |-> Len(pairs_),
                  filter_count |-> filter_count_,
                  refresh_count |-> refresh_count_,
                  total_filter_executions |-> filter_count_,
                  last_refresh_time |-> last_refresh_time_,
                  auto_refresh_running |-> auto_refresh_running_,
                  refresh_interval |-> refresh_interval_,
                  filters |-> [i \in 1..Len(filters_) |-> filters_[i].name]]]
    /\ mutex_' = "free"
    /\ pc' = [pc EXCEPT ![t] = "gs_ret"]
    /\ UNCHANGED << pairs_, filters_, ticker_provider_, market_provider_,
                    last_refresh_time_, auto_refresh_running_, auto_refresh_thread_,
                    refresh_interval_, refresh_count_, filter_count_, now,
                    sort_ties, crashed >>
    /\ UNCHANGED config_vars

\* 330-347: the snapshot is built and returned (the lock_guard unlocks)
getStatistics_return(t) ==
    /\ Running(t) /\ pc[t] = "gs_read"
    /\ loc' = [loc EXCEPT ![t].stats =
                 [pair_count |-> Len(pairs_),
                  filter_count |-> Len(filters_),
                  refresh_count |-> refresh_count_,
                  total_filter_executions |-> filter_count_,
                  last_refresh_time |-> last_refresh_time_,
                  auto_refresh_running |-> auto_refresh_running_,
                  refresh_interval |-> refresh_interval_,
                  filters |-> [i \in 1..Len(filters_) |-> filters_[i].name]]]
    /\ mutex_' = "free"
    /\ pc' = [pc EXCEPT ![t] = "gs_ret"]
    /\ UNCHANGED << pairs_, filters_, ticker_provider_, market_provider_,
                    last_refresh_time_, auto_refresh_running_, auto_refresh_thread_,
                    refresh_interval_, refresh_count_, filter_count_, now,
                    sort_ties, crashed >>
    /\ UNCHANGED config_vars

\* the caller has the statistics and goes on
getStatistics_done(t) ==
    /\ Running(t) /\ pc[t] = "gs_ret"
    /\ loc' = [loc EXCEPT ![t].stats = NoStatistics]
    /\ pc' = [pc EXCEPT ![t] = "idle"]
    /\ UNCHANGED << mutex_, pairs_, filters_, ticker_provider_, market_provider_,
                    last_refresh_time_, auto_refresh_running_, auto_refresh_thread_,
                    refresh_interval_, refresh_count_, filter_count_, now,
                    sort_ties, crashed >>
    /\ UNCHANGED config_vars

\* the members guarded by mutex_ that the step a thread takes from program
\* point `at` reads or writes
Touches(at) ==
    CASE at = "r_tickers" -> { "filters_" }          \* 228: begin(), end()
      [] at = "r_loop"    -> { "filters_" }          \* 228: *it, ++it
      [] at = "r_publish" -> { "pairs_" }            \* 242
      [] at = "r_stamp"   -> { "last_refresh_time_" } \* 243
      [] at = "g_read"    -> { "pairs_" }            \* 255, 261, 267
      [] at = "s_interval" -> { "refresh_interval_" } \* 278
      [] at = "l_sleep"   -> { "refresh_interval_" } \* 319
      [] at = "lc_clear"  -> { "filters_" }          \* 153
      [] at = "lc_entry"  -> { "filters_" }          \* 163
      [] at = "lc_period" -> { "refresh_interval_", "filters_" } \* 172, 175
      [] at = "af_push"   -> { "filters_" }          \* 181
      [] at = "cf_clear"  -> { "filters_" }          \* 187
      [] at = "lt_read"   -> { "last_refresh_time_" }
      [] at = "gs_read"   -> { "pairs_", "filters_", "last_refresh_time_",
                               "refresh_interval_" } \* 331-345
      [] OTHER            -> { }

(***************************************************************************)
(* PairFilter::filter called on a filter directly (pair_filter.h, 27-30),  *)
(* outside any refresh.                                                    *)
(***************************************************************************)
\* a caller enters filter->filter(pairs, tickers)
filter_call(t, f, pairs, tickers) ==
    /\ Running(t) /\ t \in Callers /\ pc[t] = "idle"
    /\ loc' = [loc EXCEPT ![t].filter = f, ![t].all_pairs = pairs,
                          ![t].tickers = tickers]
    /\ pc' = [pc EXCEPT ![t] = "f_call"]
    /\ UNCHANGED << mutex_, pairs_, filters_, ticker_provider_, market_provider_,
                    last_refresh_time_, auto_refresh_running_, auto_refresh_thread_,
                    refresh_interval_, refresh_count_, filter_count_, now,
                    sort_ties, crashed >>
    /\ UNCHANGED config_vars

\* the filter runs and returns its list
filter_return(t) ==
    /\ Running(t) /\ pc[t] = "f_call"
    /\ \E out \in FilterResults(loc[t].filter, loc[t].all_pairs, loc[t].tickers,
                                now, sort_ties) :
          loc' = [loc EXCEPT ![t].filtered_pairs = out]
    /\ pc' = [pc EXCEPT ![t] = "f_ret"]
    /\ UNCHANGED << mutex_, pairs_, filters_, ticker_provider_, market_provider_,
                    last_refresh_time_, auto_refresh_running_, auto_refresh_thread_,
                    refresh_interval_, refresh_count_, filter_count_, now,
                    sort_ties, crashed >>
    /\ UNCHANGED config_vars

\* the caller has the list and goes on
filter_done(t) ==
    /\ Running(t) /\ pc[t] = "f_ret"
    /\ loc' = [loc EXCEPT ![t].filter = NoFilter, ![t].all_pairs = << >>,
                          ![t].tickers = << >>, ![t].filtered_pairs = << >>]
    /\ pc' = [pc EXCEPT ![t] = "idle"]
    /\ UNCHANGED << mutex_, pairs_, filters_, ticker_provider_, market_provider_,
                    last_refresh_time_, auto_refresh_running_, auto_refresh_thread_,
                    refresh_interval_, refresh_count_, filter_count_, now,
                    sort_ties, crashed >>
    /\ UNCHANGED config_vars

(***************************************************************************)
(* ConfigManager's operations (config.cpp, config.h), one action per step. *)
(* Every operation ends at "cm_ret" with its return value in `result`.     *)
(***************************************************************************)
\* what a ConfigManager step leaves alone: the PairListManager and the clock
manager_vars == << mutex_, pairs_, filters_, ticker_provider_, market_provider_,
                   last_refresh_time_, auto_refresh_running_, auto_refresh_thread_,
                   refresh_interval_, refresh_count_, filter_count_, now,
                   sort_ties, crashed >>

\* the files of the configuration directory: a document, and a broken one
Files ==
    [p \in { "a.json", "bad.json" } |->
        IF p = "a.json"
        THEN Text(JObj([m \in { << "version" >> } |-> JNum(1)]))
        ELSE BadText]

\* the argument of loadFromFile when reload() passes config_file_path_ itself
\* (123: the parameter is a reference to the member)
MemberPath == "&config_file_path_"

Bool(b) == IF b THEN "true" ELSE "false"

\* 52: loadFromString(json_str, merge) is entered and takes the lock
loadFromString_lock(t, json_str, merge) ==
    /\ Running(t) /\ t \in Callers /\ pc[t] = "idle"
    /\ config_mutex_ = "free"
    /\ config_mutex_' = t
    /\ loc' = [loc EXCEPT ![t].text = json_str, ![t].merge = merge]
    /\ pc' = [pc EXCEPT ![t] = "ls_body"]
    /\ UNCHANGED << config_, config_file_path_ >>
    /\ UNCHANGED manager_vars

\* 54-72: parse, then merge or replace; false when parse throws
loadFromString_body(t) ==
    /\ Running(t) /\ pc[t] = "ls_body"
    /\ IF loc[t].text.valid
       THEN /\ config_' = Loaded(config_, loc[t].text.json, loc[t].merge)
            /\ loc' = [loc EXCEPT ![t].result = "true"]
       ELSE /\ config_' = config_
            /\ loc' = [loc EXCEPT ![t].result = "false"]
    /\ config_mutex_' = "free"
    /\ pc' = [pc EXCEPT ![t] = "cm_ret"]
    /\ UNCHANGED config_file_path_
    /\ UNCHANGED manager_vars

\* loadFromFile(config_path, merge) is entered
loadFromFile_call(t, config_path, merge) ==
    /\ Running(t) /\ t \in Callers /\ pc[t] = "idle"
    /\ loc' = [loc EXCEPT ![t].path = config_path, ![t].merge = merge]
    /\ pc' = [pc EXCEPT ![t] = "lf_lock"]
    /\ UNCHANGED config_vars
    /\ UNCHANGED manager_vars

\* 18: std::lock_guard<std::mutex> lock(mutex_)
loadFromFile_lock(t) ==
    /\ Running(t) /\ pc[t] = "lf_lock"
    /\ config_mutex_ = "free"
    /\ config_mutex_' = t
    /\ pc' = [pc EXCEPT ![t] = "lf_body"]
    /\ UNCHANGED << config_, config_file_path_, loc >>
    /\ UNCHANGED manager_vars

\* 20-47: open, parse, merge or replace, remember the path; false when the
\* file cannot be opened or parse throws
loadFromFile_body(t) ==
    /\ Running(t) /\ pc[t] = "lf_body"
    /\ LET config_path == IF loc[t].path = MemberPath THEN config_file_path_
                          ELSE loc[t].path
       IN IF config_path \in DOMAIN Files /\ Files[config_path].valid
          THEN /\ config_' = Loaded(config_, Files[config_path].json, loc[t].merge)
               /\ config_file_path_' = config_path
               /\ loc' = [loc EXCEPT ![t].result = "true"]
          ELSE /\ UNCHANGED << config_, config_file_path_ >>
               /\ loc' = [loc EXCEPT ![t].result = "false"]
    /\ config_mutex_' = "free"
    /\ pc' = [pc EXCEPT ![t] = "cm_ret"]
    /\ UNCHANGED manager_vars

\* reload() is entered
reload_call(t) ==
    /\ Running(t) /\ t \in Callers /\ pc[t] = "idle"
    /\ pc' = [pc EXCEPT ![t] = "rl_check"]
    /\ UNCHANGED loc
    /\ UNCHANGED config_vars
    /\ UNCHANGED manager_vars

\* 119-123: config_file_path_.empty() is read, no lock is taken; then
\* loadFromFile(config_file_path_, false)
reload_check(t) ==
    /\ Running(t) /\ pc[t] = "rl_check"
    /\ IF config_file_path_ = ""
       THEN /\ loc' = [loc EXCEPT ![t].result = "false"]
            /\ pc' = [pc EXCEPT ![t] = "cm_ret"]
       ELSE /\ loc' = [loc EXCEPT ![t].path = MemberPath, ![t].merge = FALSE]
            /\ pc' = [pc EXCEPT ![t] = "lf_lock"]
    /\ UNCHANGED config_vars
    /\ UNCHANGED manager_vars

\* 207: set<T>(key, value) is entered and takes the lock
set_lock(t, key, value) ==
    /\ Running(t) /\ t \in Callers /\ pc[t] = "idle"
    /\ config_mutex_ = "free"
    /\ config_mutex_' = t
    /\ loc' = [loc EXCEPT ![t].key = key, ![t].value = value]
    /\ pc' = [pc EXCEPT ![t] = "set_body"]
    /\ UNCHANGED << config_, config_file_path_ >>
    /\ UNCHANGED manager_vars

\* 208: setValue(key, json(value))
set_body(t) ==
    /\ Running(t) /\ pc[t] = "set_body"
    /\ config_' = setValue(config_, loc[t].key, loc[t].value)
    /\ config_mutex_' = "free"
    /\ pc' = [pc EXCEPT ![t] = "cm_ret"]
    /\ UNCHANGED << config_file_path_, loc >>
    /\ UNCHANGED manager_vars

\* 112: clear() is entered and takes the lock
clear_lock(t) ==
    /\ Running(t) /\ t \in Callers /\ pc[t] = "idle"
    /\ config_mutex_ = "free"
    /\ config_mutex_' = t
    /\ pc' = [pc EXCEPT ![t] = "cl_body"]
    /\ UNCHANGED << config_, config_file_path_, loc >>
    /\ UNCHANGED manager_vars

\* 113-114: config_.clear(); config_file_path_.clear()
clear_body(t) ==
    /\ Running(t) /\ pc[t] = "cl_body"
    /\ config_' = json_clear(config_)
    /\ config_file_path_' = ""
    /\ config_mutex_' = "free"
    /\ pc' = [pc EXCEPT ![t] = "cm_ret"]
    /\ UNCHANGED loc
    /\ UNCHANGED manager_vars

\* 99: has(key) is entered and takes the lock
has_lock(t, key) ==
    /\ Running(t) /\ t \in Callers /\ pc[t] = "idle"
    /\ config_mutex_ = "free"
    /\ config_mutex_' = t
    /\ loc' = [loc EXCEPT ![t].key = key]
    /\ pc' = [pc EXCEPT ![t] = "h_body"]
    /\ UNCHANGED << config_, config_file_path_ >>
    /\ UNCHANGED manager_vars

\* 100-101: return !getValue(key).is_null()
has_body(t) ==
    /\ Running(t) /\ pc[t] = "h_body"
    /\ loc' = [loc EXCEPT ![t].result = Bool(has(config_, loc[t].key))]
    /\ config_mutex_' = "free"
    /\ pc' = [pc EXCEPT ![t] = "cm_ret"]
    /\ UNCHANGED << config_, config_file_path_ >>
    /\ UNCHANGED manager_vars

\* config.h 149: get<int>(key, default_value) is entered and takes the lock
get_lock(t, key) ==
    /\ Running(t) /\ t \in Callers /\ pc[t] = "idle"
    /\ config_mutex_ = "free"
    /\ config_mutex_' = t
    /\ loc' = [loc EXCEPT ![t].key = key]
    /\ pc' = [pc EXCEPT ![t] = "get_body"]
    /\ UNCHANGED << config_, config_file_path_ >>
    /\ UNCHANGED manager_vars

\* config.h 150-162: the value, or the default ("default") when the key is
\* missing or get<int>() throws
get_body(t) ==
    /\ Running(t) /\ pc[t] = "get_body"
    /\ LET value == getValue(config_, loc[t].key)
       IN loc' = [loc EXCEPT ![t].value = value,
                             ![t].result = IF value.type = "null"
                                              \/ GetThrows(value, "number")
                                           THEN "default" ELSE "value"]
    /\ config_mutex_' = "free"
    /\ pc' = [pc EXCEPT ![t] = "cm_ret"]
    /\ UNCHANGED << config_, config_file_path_ >>
    /\ UNCHANGED manager_vars

\* validate(required_keys) is entered
validate_call(t, required_keys) ==
    /\ Running(t) /\ t \in Callers /\ pc[t] = "idle"
    /\ loc' = [loc EXCEPT ![t].keys = required_keys, ![t].it = 1]
    /\ pc' = [pc EXCEPT ![t] = "v_loop"]
    /\ UNCHANGED config_vars
    /\ UNCHANGED manager_vars

\* 128-135: the loop head; has(key) is entered (99) or true is returned
validate_loop(t) ==
    /\ Running(t) /\ pc[t] = "v_loop"
    /\ IF loc[t].it > Len(loc[t].keys)
       THEN /\ loc' = [loc EXCEPT ![t].result = "true"]
            /\ pc' = [pc EXCEPT ![t] = "cm_ret"]
            /\ UNCHANGED config_mutex_
       ELSE /\ config_mutex_ = "free"
            /\ config_mutex_' = t
            /\ pc' = [pc EXCEPT ![t] = "v_has"]
            /\ UNCHANGED loc
    /\ UNCHANGED << config_, config_file_path_ >>
    /\ UNCHANGED manager_vars

\* 130-133: has(key) returns; false is returned when it is false
validate_has(t) ==
    /\ Running(t) /\ pc[t] = "v_has"
    /\ IF has(config_, loc[t].keys[loc[t].it])
       THEN /\ loc' = [loc EXCEPT ![t].it = loc[t].it + 1]
            /\ pc' = [pc EXCEPT ![t] = "v_loop"]
       ELSE /\ loc' = [loc EXCEPT ![t].result = "false"]
            /\ pc' = [pc EXCEPT ![t] = "cm_ret"]
    /\ config_mutex_' = "free"
    /\ UNCHANGED << config_, config_file_path_ >>
    /\ UNCHANGED manager_vars

\* 106: getConfig() is entered and takes the lock
getConfig_lock(t) ==
    /\ Running(t) /\ t \in Callers /\ pc[t] = "idle"
    /\ config_mutex_ = "free"
    /\ config_mutex_' = t
    /\ pc' = [pc EXCEPT ![t] = "gc_ret"]
    /\ UNCHANGED << config_, config_file_path_, loc >>
    /\ UNCHANGED manager_vars

\* 107: return config_: a reference to the member; the lock_guard unlocks
getConfig_return(t) ==
    /\ Running(t) /\ pc[t] = "gc_ret"
    /\ config_mutex_' = "free"
    /\ pc' = [pc EXCEPT ![t] = "gc_use"]
    /\ UNCHANGED << config_, config_file_path_, loc >>
    /\ UNCHANGED manager_vars

\* the caller reads the configuration through the reference it was given
getConfig_use(t) ==
    /\ Running(t) /\ pc[t] = "gc_use"
    /\ loc' = [loc EXCEPT ![t].value = config_]
    /\ pc' = [pc EXCEPT ![t] = "cm_ret"]
    /\ UNCHANGED config_vars
    /\ UNCHANGED manager_vars

\* 140: getSummary() is entered and takes the lock
getSummary_lock(t) ==
    /\ Running(t) /\ t \in Callers /\ pc[t] = "idle"
    /\ config_mutex_ = "free"
    /\ config_mutex_' = t
    /\ pc' = [pc EXCEPT ![t] = "sum_body"]
    /\ UNCHANGED << config_, config_file_path_, loc >>
    /\ UNCHANGED manager_vars

\* 141-148: the summary is made of config_file_path_ and config_
getSummary_body(t) ==
    /\ Running(t) /\ pc[t] = "sum_body"
    /\ loc' = [loc EXCEPT ![t].path = config_file_path_, ![t].value = config_]
    /\ config_mutex_' = "free"
    /\ pc' = [pc EXCEPT ![t] = "cm_ret"]
    /\ UNCHANGED << config_, config_file_path_ >>
    /\ UNCHANGED manager_vars

\* the operation has returned and the caller goes on
ConfigManager_return(t) ==
    /\ Running(t) /\ pc[t] = "cm_ret"
    /\ pc' = [pc EXCEPT ![t] = "idle"]
    /\ loc' = [loc EXCEPT ![t] = NoLocals]
    /\ UNCHANGED config_vars
    /\ UNCHANGED manager_vars

(***************************************************************************)
(* The environment: the clock, and what the providers return.              *)
(***************************************************************************)
\* a day passes
Tick ==
    /\ ~crashed
    /\ now < MaxClock * HoursPerDay
    /\ now' = now + HoursPerDay
    /\ UNCHANGED << mutex_, pairs_, filters_, ticker_provider_, market_provider_,
                    last_refresh_time_, auto_refresh_running_, auto_refresh_thread_,
                    refresh_interval_, refresh_count_, filter_count_, pc, loc,
                    sort_ties, crashed >>
    /\ UNCHANGED config_vars

\* setMarketProvider (pair_list_manager.h): the application installs a
\* provider, or the provider in place starts returning another snapshot
setMarketProvider(provider) ==
    /\ ~crashed
    /\ market_provider_ # provider
    /\ market_provider_' = provider
    /\ UNCHANGED << mutex_, pairs_, filters_, ticker_provider_,
                    last_refresh_time_, auto_refresh_running_, auto_refresh_thread_,
                    refresh_interval_, refresh_count_, filter_count_, pc, loc, now,
                    sort_ties, crashed >>
    /\ UNCHANGED config_vars

(***************************************************************************)
(* The values the checks run over.                                         *)
(***************************************************************************)
TickersAB ==
    [s \in { "A", "B" } |->
        IF s = "A" THEN TickerInfo(100, 99, 101, 110, 90, 5, 500, 2)
                   ELSE TickerInfo(10, 9, 10, 12, 9, 30, 300, -3)]

MarketsAB ==
    << MarketInfo("A", TRUE, 0, 1000, 5), MarketInfo("B", TRUE, 24, 2000, 15),
       MarketInfo("C", FALSE, 0, 10, -1) >>

MarketsInactive == << MarketInfo("C", FALSE, 0, 10, -1) >>

MarketProviders ==
    { NoProvider, Provider(<< >>), Provider(MarketsInactive), Provider(MarketsAB) }

TickerProviders == { NoProvider, Provider(TickersAB) }

\* the chains of the publication checks
PubChains ==
    { << VolumePairListFilter(2, "QuoteVolume", 0), OffsetFilter(1, 0) >>,
      << BlacklistFilter(<< "A", "B" >>), ProducerPairList(Provider(<< "C" >>)) >> }

\* the state PairListManager() constructs (139-142, and the member
\* initialisers of pair_list_manager.h)
Constructed ==
    /\ mutex_ = "free"
    /\ pairs_ = << >>
    /\ last_refresh_time_ = now
    /\ auto_refresh_running_ = FALSE
    /\ auto_refresh_thread_ = NoThread
    /\ refresh_interval_ = 1800
    /\ refresh_count_ = 0
    /\ filter_count_ = 0
    /\ pc = [t \in Threads |-> IF t \in Loops THEN "unborn" ELSE "idle"]
    /\ loc = [t \in Threads |-> NoLocals]
    /\ crashed = FALSE
    /\ config_mutex_ = "free"
    /\ config_ = JNull
    /\ config_file_path_ = ""

(***************************************************************************)
(* Spec: publication.  "main" refreshes by hand and starts the background  *)
(* loop, "aux" reads, the market provider's answer changes.                *)
(***************************************************************************)
Init ==
    /\ now = 0
    /\ Constructed
    /\ filters_ \in PubChains
    /\ market_provider_ = NoProvider
    /\ ticker_provider_ \in TickerProviders
    /\ sort_ties = "stable"

Next ==
    \/ \E t \in { "main" } : refresh_call(t)
    \/ \E t \in Threads : refresh_markets(t)
    \/ \E t \in Threads : refresh_nopairs(t)
    \/ \E t \in Threads : refresh_tickers(t)
    \/ \E t \in Threads : refresh_loop(t)
    \/ \E t \in Threads : refresh_filter(t)
    \/ \E t \in Threads : refresh_lock(t)
    \/ \E t \in Threads : refresh_publish(t)
    \/ \E t \in Threads : refresh_stamp(t)
    \/ \E t \in Threads : refresh_count(t)
    \/ \E t \in { "aux" } : getPairs_lock(t)
    \/ \E t \in { "aux" } : getPairs_return(t)
    \/ \E t \in { "main" } : startAutoRefresh_enter(t, 1)
    \/ \E t \in { "main" } : startAutoRefresh_check(t)
    \/ \E t \in { "main" } : startAutoRefresh_interval(t)
    \/ \E t \in { "main" } : startAutoRefresh_flag(t)
    \/ \E t \in { "main" } : startAutoRefresh_spawn(t)
    \/ \E l \in Loops : autoRefreshLoop_while(l)
    \/ \E l \in Loops : autoRefreshLoop_sleep(l)
    \/ \E p \in MarketProviders : setMarketProvider(p)
    \/ Tick

Spec == Init /\ [][Next]_vars

(***************************************************************************)
(* Properties of publication, checked under Spec.                          *)
(***************************************************************************)
\* C1: the published list only ever changes to the final working set of a
\* refresh whose fold has ended, written by that refresh while it holds the
\* lock; and what an accessor returns is the published list, read while the
\* accessor holds the lock.  So a reader sees the initial empty list or the
\* output of one complete run, never an intermediate working set.
C1_PublishedIsCompleteRun ==
    [][ /\ pairs_' # pairs_ =>
             \E t \in Threads : /\ pc[t] = "r_publish"
                                /\ mutex_ = t
                                /\ FoldDone(t)
                                /\ pairs_' = loc[t].filtered_pairs
        /\ \A r \in Callers :
             loc'[r].seen # loc[r].seen =>
                 /\ mutex_ = r
                 /\ \A t \in Threads : pc[t] \notin { "r_publish" }
                 /\ loc'[r].seen = pairs_ ]_vars

\* C1 witness: a reader has read a non-empty published list while a refresh is
\* in its second filter with a working set that differs from it
C1_Witness ==
    \E t \in Threads :
        /\ pc[t] = "r_filter" /\ loc[t].it = 2
        /\ pairs_ # << >>
        /\ loc[t].filtered_pairs # pairs_
        /\ loc["aux"].seen = pairs_

\* every filter of the chain applied in order, with no early exit: the set of
\* lists such a fold can end with
RECURSIVE FoldAll(_, _, _, _, _)
FoldAll(chain, pairs, tickers, clock, ties) ==
    IF chain = << >> THEN { pairs }
    ELSE UNION { FoldAll(Tail(chain), out, tickers, clock, ties) :
                    out \in FilterResults(Head(chain), pairs, tickers, clock, ties) }

\* C2: when a refresh has written the published list, that list is the fold
\* of every filter of the chain, in order, over the active symbols and the
\* run's ticker snapshot
C2_PublishedIsFullFold ==
    \A t \in Threads :
        pc[t] = "r_stamp" =>
            pairs_ \in FoldAll(filters_, loc[t].all_pairs, loc[t].tickers, now, sort_ties)

\* the states a refresh of thread t is in while it is inside a provider or a
\* filter (199, 221, 235)
InExternalCall(t) == pc[t] \in { "r_markets", "r_tickers", "r_filter" }

\* C3: a refresh that finds no active pair (provider unset, no markets, or no
\* active market) goes to its early return, and neither that step nor the
\* return changes the published list, refresh_count, total_filter_executions
\* or the last-refresh time
NoActivePair(provider) ==
    \/ ~provider.set
    \/ \A i \in 1..Len(provider.value) : ~provider.value[i].active

C3_NoPairsKeepsPublished ==
    [][ \A t \in Threads :
          /\ (pc[t] = "r_markets" /\ pc'[t] # "r_markets" /\ NoActivePair(market_provider_))
                => /\ pc'[t] = "r_nopairs"
                   /\ UNCHANGED << pairs_, refresh_count_, filter_count_,
                                   last_refresh_time_ >>
          /\ (pc[t] = "r_nopairs" /\ pc'[t] # "r_nopairs")
                => /\ pc'[t] = Return(t)
                   /\ UNCHANGED << pairs_, refresh_count_, filter_count_,
                                   last_refresh_time_ >> ]_vars

\* C3 witness: a refresh is at its early return while a non-empty list,
\* published by an earlier refresh at an earlier time, is still in place
C3_Witness ==
    \E t \in Threads :
        /\ pc[t] = "r_nopairs"
        /\ pairs_ # << >>
        /\ refresh_count_ > 0
        /\ last_refresh_time_ < now

\* C7: a refresh that is inside the market provider, the ticker provider or a
\* filter does not hold the mutex, so an accessor is not kept out by it
C7_NoLockInExternalCall ==
    \A t \in Threads : InExternalCall(t) => mutex_ # t

\* C7 witness: an accessor holds the lock and is about to return the published
\* non-empty list while a refresh is inside a filter
C7_Witness ==
    \E t \in Threads :
        /\ pc[t] = "r_filter"
        /\ pc["aux"] = "g_read" /\ mutex_ = "aux"
        /\ pairs_ # << >>

(***************************************************************************)
(* SpecAuto: two callers start and stop the background loop, which         *)
(* refreshes.  SpecStartStop: the same with one controlling caller.        *)
(***************************************************************************)
InitAuto ==
    /\ now = 0
    /\ Constructed
    /\ filters_ = << BlacklistFilter(<< "B" >>) >>
    /\ market_provider_ \in { Provider(MarketsAB), Provider(MarketsInactive) }
    /\ ticker_provider_ = Provider(TickersAB)
    /\ sort_ties = "stable"

\* the steps of the background thread
LoopStep(l) ==
    \/ autoRefreshLoop_while(l)
    \/ refresh_markets(l)
    \/ refresh_nopairs(l)
    \/ refresh_tickers(l)
    \/ refresh_loop(l)
    \/ refresh_filter(l)
    \/ refresh_lock(l)
    \/ refresh_publish(l)
    \/ refresh_stamp(l)
    \/ refresh_count(l)
    \/ autoRefreshLoop_sleep(l)

\* the steps of a caller that starts and stops auto-refresh
ControlStep(t) ==
    \/ startAutoRefresh_call(t)
    \/ startAutoRefresh_check(t)
    \/ startAutoRefresh_interval(t)
    \/ startAutoRefresh_flag(t)
    \/ startAutoRefresh_spawn(t)
    \/ stopAutoRefresh_call(t)
    \/ stopAutoRefresh_check(t)
    \/ stopAutoRefresh_clear(t)
    \/ stopAutoRefresh_join(t)
    \/ stopAutoRefresh_return(t)

NextAuto ==
    \/ \E t \in Callers : ControlStep(t)
    \/ \E l \in Loops : LoopStep(l)

SpecAuto == InitAuto /\ [][NextAuto]_vars

NextStartStop ==
    \/ \E t \in { "main" } : ControlStep(t)
    \/ \E l \in Loops : LoopStep(l)

SpecStartStop == InitAuto /\ [][NextStartStop]_vars

\* the background thread l exists and has not left autoRefreshLoop
LoopAlive(l) == pc[l] \notin { "unborn", "l_exit" }

\* C4: at the step by which a stopAutoRefresh() returns, no background thread
\* is still inside autoRefreshLoop; and a stopAutoRefresh() that finds the
\* flag false changes nothing
C4_StopReturnsAfterLoopExit ==
    [][ \A t \in Callers :
          /\ (pc[t] # "st_ret" /\ pc'[t] = "st_ret")
                => \A l \in Loops : ~LoopAlive(l)'
          /\ (pc[t] = "st_check" /\ pc'[t] # "st_check" /\ ~auto_refresh_running_)
                => UNCHANGED << auto_refresh_running_, auto_refresh_thread_,
                                refresh_interval_, pairs_ >> ]_vars

\* C5: with one caller starting and stopping, once stopAutoRefresh() has
\* returned isAutoRefreshing() is false, and whenever it is false and no start
\* or stop is in progress there is no background thread at all: nothing
\* refreshes or counts in the background until the next startAutoRefresh
C5_StoppedMeansNoBackgroundThread ==
    /\ pc["main"] = "st_ret" => ~auto_refresh_running_
    /\ (pc["main"] \in { "st_ret", "idle" } /\ ~auto_refresh_running_)
          => \A l \in Loops : pc[l] = "unborn"

\* C5 witness: stopAutoRefresh() has returned after joining a thread that was
\* stopped before it began a single refresh
C5_Witness ==
    /\ pc["main"] = "st_ret"
    /\ auto_refresh_thread_ = [thread |-> "loop1", joinable |-> FALSE]
    /\ refresh_count_ = 0

\* C6: whenever a thread is about to read or write filters_, pairs_,
\* last_refresh_time_ or refresh_interval_, it holds the manager's mutex
C6_GuardedMembersUnderMutex ==
    \A t \in Threads : Touches(pc[t]) # { } => mutex_ = t

(***************************************************************************)
(* One caller building the chain: addFilter, clearFilters, loadFromConfig  *)
(* over a family of documents, and the readers getLastRefreshTime and      *)
(* getStatistics.                                                          *)
(***************************************************************************)
\* the entries the documents are made of
Entries ==
    { JObj([method |-> JStr("OffsetFilter"), offset |-> JNum(1)]),
      JObj([method |-> JStr("BlacklistFilter"),
            blacklist |-> JArr(<< JStr("A") >>)]),
      JObj([method |-> JStr("NoSuchFilter")]),
      JObj([offset |-> JNum(1)]),
      JObj([method |-> JNum(5)]),
      JObj([method |-> JStr("VolumePairList"), number_assets |-> JStr("abc")]) }

RECURSIVE SeqsUpTo(_, _)
\* the sequences over S of length at most n
SeqsUpTo(S, n) ==
    IF n = 0 THEN { << >> }
    ELSE LET shorter == SeqsUpTo(S, n - 1)
         IN shorter \cup { Append(q, e) : q \in shorter, e \in S }

\* the values the documents give refresh_period
Periods == { JNum(60), JStr("fast") }

\* the configuration documents: the entries alone, or refresh_period with at
\* most one entry
Configs ==
    { JObj([pairlist_filters |-> JArr(es)]) : es \in SeqsUpTo(Entries, MaxEntries) }
    \cup { JObj([pairlist_filters |-> JArr(es), refresh_period |-> p]) :
              es \in SeqsUpTo(Entries, 1), p \in Periods }
    \cup { JObj([refresh_period |-> JNum(60)]) }

\* the filters the caller adds by hand: each carries a provider, which no
\* configuration document can set
AddableFilters ==
    { ProducerPairList(Provider(<< "C" >>)),
      AgeFilter(0, Provider(MarketsAB)) }

InitLoad ==
    /\ now = 0
    /\ Constructed
    /\ filters_ = << >>
    /\ market_provider_ = Provider(MarketsAB)
    /\ ticker_provider_ = Provider(TickersAB)
    /\ sort_ties = "stable"

NextLoad ==
    \/ \E f \in AddableFilters : addFilter_call("main", f)
    \/ addFilter_lock("main")
    \/ addFilter_push("main")
    \/ clearFilters_call("main")
    \/ clearFilters_clear("main")
    \/ /\ pc["main"] = "idle"
       /\ \E config \in Configs : loadFromConfig_call("main", config)
    \/ loadFromConfig_lock("main")
    \/ loadFromConfig_clear("main")
    \/ loadFromConfig_entry("main")
    \/ loadFromConfig_period("main")
    \/ loadFromConfig_return("main")
    \/ getLastRefreshTime_call("main")
    \/ getLastRefreshTime_return("main")
    \/ getLastRefreshTime_done("main")
    \/ getStatistics_lock("main")
    \/ getStatistics_return("main")
    \/ getStatistics_done("main")

SpecLoad == InitLoad /\ [][NextLoad]_vars

\* whether the entry names one of the filters create knows
KnownMethod(e) ==
    /\ contains(e, "method")
    /\ e.val["method"].type = "string"
    /\ e.val["method"].val \in KnownMethods

RECURSIVE KnownEntries(_)
\* the entries of `entries` whose method is one of the names create knows
KnownEntries(entries) ==
    IF entries = << >> THEN << >>
    ELSE LET rest == KnownEntries(Tail(entries))
         IN IF KnownMethod(Head(entries)) THEN << Head(entries) >> \o rest
            ELSE rest

\* the options of every entry with a known method have the types configure
\* reads them with
OptionsWellTyped(config) ==
    \A i \in 1..Len(FilterEntries(config)) :
        LET e == FilterEntries(config)[i]
        IN KnownMethod(e) => ~configure_throws(e.val["method"].val, e)

\* C9: when loadFromConfig(cfg) is left, the options of cfg being well typed,
\* the chain is exactly one filter per entry with a known method, of that
\* method, in the order of the entries, and none of the filters added before
\* the call is in it
C9_ChainIsKnownEntriesInOrder ==
    \A t \in Callers :
        (pc[t] \in { "lc_ret", "lc_threw" } /\ OptionsWellTyped(loc[t].cfg)) =>
            LET known == KnownEntries(FilterEntries(loc[t].cfg))
            IN /\ Len(filters_) = Len(known)
               /\ \A i \in 1..Len(known) :
                     /\ filters_[i].name = known[i].val["method"].val
                     /\ filters_[i] \notin AddableFilters

RECURSIVE ValidFilters(_)
\* the filters of the entries that are valid: a string method create knows,
\* and options configure accepts
ValidFilters(entries) ==
    IF entries = << >> THEN << >>
    ELSE LET made == createFromConfig(Head(entries))
             rest == ValidFilters(Tail(entries))
         IN IF ~made.threw /\ made.filter # NoFilter
            THEN << made.filter >> \o rest
            ELSE rest

\* C10: loadFromConfig(cfg) is never left by an exception, and when it is
\* left every valid entry of cfg.pairlist_filters has its filter in the chain
C10_LoadNeverFails ==
    \A t \in Callers :
        pc[t] \in { "lc_ret", "lc_threw" } =>
            /\ pc[t] = "lc_ret"
            /\ filters_ = ValidFilters(FilterEntries(loc[t].cfg))

(***************************************************************************)
(* One caller refreshing again and again while the clock advances and the  *)
(* providers keep returning the same values.                               *)
(***************************************************************************)
\* the chains of the determinism checks
DetChains ==
    { << AgeFilter(1, Provider(MarketsAB)) >>,
      << AgeFilter(1, NoProvider), ShuffleFilter(1) >>,
      << ShuffleFilter(0) >>,
      << VolumePairListFilter(2, "Volume", 0), ShuffleFilter(3) >>,
      << MarketCapPairList(2, 100, Provider(MarketsAB)), PriceFilter(1, 1000) >> }

InitDet ==
    /\ now = 0
    /\ Constructed
    /\ filters_ \in DetChains
    /\ market_provider_ \in { Provider(MarketsAB), Provider(MarketsInactive) }
    /\ ticker_provider_ = Provider(TickersAB)
    /\ sort_ties \in { "stable", "reversed" }

NextDet ==
    \/ refresh_call("main")
    \/ refresh_markets("main")
    \/ refresh_nopairs("main")
    \/ refresh_tickers("main")
    \/ refresh_loop("main")
    \/ refresh_filter("main")
    \/ refresh_lock("main")
    \/ refresh_publish("main")
    \/ refresh_stamp("main")
    \/ refresh_count("main")
    \/ Tick

SpecDet == InitDet /\ [][NextDet]_vars

\* the chain has a ShuffleFilter that seeds itself from std::random_device
HasUnseededShuffle(chain) ==
    \E i \in 1..Len(chain) : chain[i].name = "ShuffleFilter" /\ chain[i].seed_ = 0

\* the chain has an AgeFilter that has a market provider, and so reads the
\* system clock (685)
HasClockedAgeFilter(chain) ==
    \E i \in 1..Len(chain) :
        chain[i].name = "AgeFilter" /\ chain[i].market_provider_.set

\* C8: the chain having no ShuffleFilter with seed 0 and the providers
\* returning the same values, a refresh() that publishes after an earlier
\* refresh() published leaves the published list as it was, whatever time
\* elapsed between the two
C8_RefreshTwicePublishesSame ==
    [][ \A t \in Callers :
          (pc[t] = "r_publish" /\ refresh_count_ >= 1
              /\ ~HasUnseededShuffle(filters_))
             => pairs_' = pairs_ ]_vars

\* C8 as amended: the same for the chains that also have no AgeFilter with a
\* market provider
C8_RefreshTwicePublishesSameUnclocked ==
    [][ \A t \in Callers :
          (pc[t] = "r_publish" /\ refresh_count_ >= 1
              /\ ~HasUnseededShuffle(filters_)
              /\ ~HasClockedAgeFilter(filters_))
             => pairs_' = pairs_ ]_vars

\* C8 witness: a second refresh() has published, a day after the first, a
\* list of two pairs that a seeded ShuffleFilter reordered
C8_Witness ==
    /\ pc["main"] = "r_stamp"
    /\ refresh_count_ = 1
    /\ now > last_refresh_time_
    /\ filters_ = << VolumePairListFilter(2, "Volume", 0), ShuffleFilter(3) >>
    /\ pairs_ = << "A", "B" >>

(***************************************************************************)
(* One caller applying single filters to lists and ticker snapshots.       *)
(***************************************************************************)
Symbols == { "A", "B", "C" }

PairsABCD == << "A", "B", "C", "D" >>

PairsAtoH == << "A", "B", "C", "D", "E", "F", "G", "H" >>

\* the lists the filters are applied to
InputLists == SeqsUpTo(Symbols, MaxLen) \cup { PairsABCD, PairsAtoH }

\* A: bid 100, ask 100.4 (prices in tenths); B: a spread of exactly 1%; C: no
\* spread; quote volumes A = 500, B = 50, C = 300; no ticker for D
TickersABC ==
    [s \in Symbols |->
        CASE s = "A" -> TickerInfo(1002, 1000, 1004, 1100, 900, 5, 500, 2)
          [] s = "B" -> TickerInfo(100, 99, 100, 120, 90, 30, 50, -3)
          [] s = "C" -> TickerInfo(10, 10, 10, 10, 10, 7, 300, 0)]

\* A and B have the same quote volume
TickersTie ==
    [TickersABC EXCEPT !["A"].quote_volume_24h = 300,
                       !["B"].quote_volume_24h = 300,
                       !["C"].quote_volume_24h = 100]

TickerMaps == { TickersABC, TickersTie, TickersAB, << >> }

\* ranks A: 5, B: 15, C: -1 (unranked), D: 3
MarketsRanked ==
    << MarketInfo("A", TRUE, 0, 1000, 5), MarketInfo("B", TRUE, 0, 5000, 15),
       MarketInfo("C", TRUE, 0, 9000, -1), MarketInfo("D", TRUE, 0, 2000, 3) >>

\* A and B have the same market cap
MarketsTie ==
    << MarketInfo("A", TRUE, 0, 1000, 1), MarketInfo("B", TRUE, 0, 1000, 2),
       MarketInfo("C", TRUE, 0, 500, 3) >>

\* profit scores, in percent; none for C
Scores == [s \in { "A", "B" } |-> IF s = "A" THEN 5 ELSE -2]

SymbolLists == { << >>, << "A" >>, << "B", "C" >>, << "C", "A", "C" >>, << "D" >> }

\* the filters applied
FilterCases ==
    { VolumePairListFilter(n, key, minv) :
         n \in 0..MaxAssets, key \in { "QuoteVolume", "PriceChange" },
         minv \in { 0, 100 } }
    \cup { MarketCapPairList(n, 10, prov) :
              n \in 0..MaxAssets,
              prov \in { NoProvider, Provider(MarketsRanked), Provider(MarketsTie) } }
    \cup { OffsetFilter(k, n) : k \in 0..(MaxLen + 1), n \in 0..(MaxAssets + 1) }
    \cup { OffsetFilter(1, IntMax) }
    \cup { StaticPairListFilter(wl) : wl \in SymbolLists }
    \cup { BlacklistFilter(bl) : bl \in SymbolLists }
    \cup { PerformanceFilter(m, prov) :
              m \in { 0, 5 }, prov \in { NoProvider, Provider(Scores) } }
    \cup { SpreadFilter(30), SpreadFilter(50), SpreadFilter(100) }
    \cup { PriceFilter(0, DoubleMax), PriceFilter(100, 1002) }
    \cup { VolatilityFilter(0, DoubleMax), VolatilityFilter(10, 30) }
    \cup { AgeFilter(1, NoProvider), AgeFilter(0, Provider(MarketsRanked)) }
    \cup { ProducerPairList(NoProvider), ProducerPairList(Provider(<< "C" >>)) }
    \cup { ShuffleFilter(1) }

InitFilter ==
    /\ now = 0
    /\ Constructed
    /\ filters_ = << >>
    /\ market_provider_ = NoProvider
    /\ ticker_provider_ = NoProvider
    /\ sort_ties \in { "stable", "reversed" }

NextFilter ==
    \/ /\ pc["main"] = "idle"
       /\ \E f \in FilterCases, pairs \in InputLists, tickers \in TickerMaps :
             filter_call("main", f, pairs, tickers)
    \/ filter_return("main")
    \/ filter_done("main")

SpecFilter == InitFilter /\ [][NextFilter]_vars

\* a call of filter t made has returned: its filter, its arguments, its result
Returned(t) == pc[t] = "f_ret"

\* numerator and denominator of the metric VolumePairList ranks ticker tk by
MetricN(key, tk) ==
    CASE key = "QuoteVolume" -> tk.quote_volume_24h
      [] key = "Volume"      -> tk.volume_24h
      [] key = "PriceChange" -> IF tk.price_change_percent_24h < 0
                                THEN 0 - tk.price_change_percent_24h
                                ELSE tk.price_change_percent_24h
      [] key = "Volatility"  -> tk.high_24h - tk.low_24h

MetricD(key, tk) == IF key = "Volatility" THEN tk.last_price ELSE 1

\* metric of p >= metric of q (denominators are positive)
MetricGeq(key, tickers, p, q) ==
    MetricN(key, tickers[p]) * MetricD(key, tickers[q])
        >= MetricN(key, tickers[q]) * MetricD(key, tickers[p])

\* p has a ticker and its metric is at least min_value_
VolumeEligible(f, tickers, p) ==
    /\ p \in DOMAIN tickers
    /\ MetricN(f.sort_key_, tickers[p])
          >= f.min_value_ * MetricD(f.sort_key_, tickers[p])

IndexOf(list, p) == CHOOSE i \in 1..Len(list) : list[i] = p

\* the list has no symbol twice
NoRepeat(list) == Cardinality(Range(list)) = Len(list)

\* p passes the rank test of MarketCapPairList f
CapEligible(f, p) ==
    LET market_map == MarketMap(f.market_provider_.value)
    IN /\ p \in DOMAIN market_map
       /\ market_map[p].market_cap_rank > 0
       /\ market_map[p].market_cap_rank <= f.max_rank_

\* the market cap of p
CapOf(f, p) == MarketMap(f.market_provider_.value)[p].market_cap

\* p and q are both ranked by f and have exactly the same ranking metric
Tied(f, tickers, p, q) ==
    IF f.name = "VolumePairList"
    THEN /\ VolumeEligible(f, tickers, p) /\ VolumeEligible(f, tickers, q)
         /\ MetricGeq(f.sort_key_, tickers, p, q)
         /\ MetricGeq(f.sort_key_, tickers, q, p)
    ELSE /\ CapEligible(f, p) /\ CapEligible(f, q)
         /\ CapOf(f, p) = CapOf(f, q)

\* C12: in the list VolumePairList or MarketCapPairList returns, two pairs
\* with exactly the same metric stand in the order they had in the input, and
\* of two tied pairs of which one is cut off the one kept is the earlier of
\* the input
C12_TiesKeepInputOrder ==
    \A t \in Callers :
        (Returned(t) /\ NoRepeat(loc[t].all_pairs)
            /\ \/ loc[t].filter.name = "VolumePairList"
               \/ /\ loc[t].filter.name = "MarketCapPairList"
                  /\ loc[t].filter.market_provider_.set) =>
        LET f == loc[t].filter
            in == loc[t].all_pairs
            tk == loc[t].tickers
            out == loc[t].filtered_pairs
        IN /\ \A i, j \in 1..Len(out) :
                 (i < j /\ Tied(f, tk, out[i], out[j]))
                    => IndexOf(in, out[i]) < IndexOf(in, out[j])
           /\ \A p \in Range(out), q \in Range(in) \ Range(out) :
                 Tied(f, tk, p, q) => IndexOf(in, p) < IndexOf(in, q)

\* the elements of the list at positions k .. k + n - 1 (counted from 0)
Slice(list, k, n) == [i \in 1..n |-> list[k + i]]

\* C13: OffsetFilter with offset = K >= 0 and number_assets = N returns the
\* input elements at positions K .. K+N-1, clipped to the input, when N > 0
\* and those from position K to the end when N = 0, in input order; nothing
\* when K is at least the length; offset 2, number_assets 3 on eight elements
\* give positions 2, 3, 4
C13_OffsetIsSlice ==
    \A t \in Callers :
        (Returned(t) /\ loc[t].filter.name = "OffsetFilter"
            /\ loc[t].filter.offset_ >= 0 /\ loc[t].filter.number_assets_ >= 0) =>
        LET K == loc[t].filter.offset_
            N == loc[t].filter.number_assets_
            in == loc[t].all_pairs
            out == loc[t].filtered_pairs
            left == IF K >= Len(in) THEN 0 ELSE Len(in) - K
        IN /\ out = Slice(in, K, IF N = 0 \/ N > left THEN left ELSE N)
           /\ (K = 2 /\ N = 3 /\ in = PairsAtoH) => out = << "C", "D", "E" >>

RECURSIVE CountIn(_, _)
\* how many elements of the list are in S
CountIn(list, S) ==
    IF list = << >> THEN 0
    ELSE (IF Head(list) \in S THEN 1 ELSE 0) + CountIn(Tail(list), S)

\* C14: MarketCapPairList with a market provider returns input pairs that
\* have a market entry with 0 < market_cap_rank <= max_rank, by market cap
\* descending, as many as there are up to number_assets and the largest by
\* market cap; ranks A: 5, B: 15, C: -1, D: 3 with max_rank 10 give A and D
C14_MarketCapRanked ==
    \A t \in Callers :
        (Returned(t) /\ loc[t].filter.name = "MarketCapPairList"
            /\ loc[t].filter.market_provider_.set
            /\ loc[t].filter.number_assets_ >= 0) =>
        LET f == loc[t].filter
            in == loc[t].all_pairs
            out == loc[t].filtered_pairs
            eligible == { p \in Range(in) : CapEligible(f, p) }
        IN /\ \A i \in 1..Len(out) : out[i] \in eligible
           /\ Len(out) = Min(f.number_assets_, CountIn(in, eligible))
           /\ \A i, j \in 1..Len(out) : i < j => CapOf(f, out[i]) >= CapOf(f, out[j])
           /\ \A p \in eligible \ Range(out), i \in 1..Len(out) :
                 CapOf(f, out[i]) >= CapOf(f, p)
           /\ (f = MarketCapPairList(2, 10, Provider(MarketsRanked))
                 /\ in = PairsABCD) => out = << "D", "A" >>

\* C14 witness: the call of the example has returned D and A
C14_Witness ==
    /\ Returned("main")
    /\ loc["main"].filter = MarketCapPairList(2, 10, Provider(MarketsRanked))
    /\ loc["main"].all_pairs = PairsABCD
    /\ loc["main"].filtered_pairs = << "D", "A" >>

RECURSIVE KeepIn(_, _)
\* the elements of the list that are in S, in the list's order, repeats kept
KeepIn(list, S) ==
    IF list = << >> THEN << >>
    ELSE (IF Head(list) \in S THEN << Head(list) >> ELSE << >>)
         \o KeepIn(Tail(list), S)

\* C15: StaticPairList with an empty whitelist returns its input unchanged;
\* with a non-empty whitelist it returns exactly the input elements that are
\* in the whitelist, in input order, and nothing that was not in the input
C15_StaticKeepsWhitelisted ==
    \A t \in Callers :
        (Returned(t) /\ loc[t].filter.name = "StaticPairList") =>
        LET wl == loc[t].filter.whitelist_
            in == loc[t].all_pairs
            out == loc[t].filtered_pairs
        IN /\ wl = << >> => out = in
           /\ wl # << >> => out = KeepIn(in, Range(wl))
           /\ Range(out) \subseteq Range(in)

\* C15 witness: an empty whitelist has returned a list with a repeat as it
\* was given
C15_Witness ==
    /\ Returned("main")
    /\ loc["main"].filter = StaticPairListFilter(<< >>)
    /\ loc["main"].all_pairs = << "A", "B", "A" >>
    /\ loc["main"].filtered_pairs = << "A", "B", "A" >>

\* C16: BlacklistFilter returns exactly the input elements that are not in
\* the blacklist, in input order, and applying it to its own output returns
\* that output unchanged
C16_BlacklistExactIdempotent ==
    \A t \in Callers :
        (Returned(t) /\ loc[t].filter.name = "BlacklistFilter") =>
        LET f == loc[t].filter
            in == loc[t].all_pairs
            out == loc[t].filtered_pairs
        IN /\ out = KeepIn(in, Range(in) \ Range(f.blacklist_))
           /\ BlacklistFilter_filter(f, out) = out
           /\ Range(in) \cap Range(f.blacklist_) = {} => out = in

\* C16 witness: a blacklist naming C twice has removed both C of the input
C16_Witness ==
    /\ Returned("main")
    /\ loc["main"].filter = BlacklistFilter(<< "C", "A", "C" >>)
    /\ loc["main"].all_pairs = << "C", "B", "C" >>
    /\ loc["main"].filtered_pairs = << "B" >>

\* C19: PerformanceFilter with a provider set keeps a pair iff the pair has
\* no score or its score is >= min_profit, in input order
C19_PerformanceKeepsUnscoredOrGood ==
    \A t \in Callers :
        (Returned(t) /\ loc[t].filter.name = "PerformanceFilter"
            /\ loc[t].filter.performance_provider_.set) =>
        LET f == loc[t].filter
            scores == f.performance_provider_.value
            in == loc[t].all_pairs
            good == { p \in Range(in) :
                        p \in DOMAIN scores => scores[p] >= f.min_profit_ }
        IN loc[t].filtered_pairs = KeepIn(in, good)

\* C19 witness: with min_profit 0, A (score 5) and C (no score) are kept
\* and B (score -2) is dropped
C19_Witness ==
    /\ Returned("main")
    /\ loc["main"].filter = PerformanceFilter(0, Provider(Scores))
    /\ loc["main"].all_pairs = << "C", "B", "A" >>
    /\ loc["main"].filtered_pairs = << "C", "A" >>

\* C20: SpreadFilter keeps a pair that has a ticker iff
\* (ask - bid) / ask <= max_spread_ratio, in input order; bid 100, ask 100.4
\* (here 1000 and 1004) is kept with ceiling 0.005 and dropped with 0.003
C20_SpreadKeepsWithinCeiling ==
    \A t \in Callers :
        (Returned(t) /\ loc[t].filter.name = "SpreadFilter") =>
        LET f == loc[t].filter
            tk == loc[t].tickers
            in == loc[t].all_pairs
            out == loc[t].filtered_pairs
            within == { p \in Range(in) \cap DOMAIN tk :
                          (tk[p].ask - tk[p].bid) * 10000
                              <= f.max_spread_ratio_ * tk[p].ask }
        IN /\ out = KeepIn(in, within)
           /\ (tk = TickersABC /\ "A" \in Range(in)) =>
                 /\ f.max_spread_ratio_ = 50 => "A" \in Range(out)
                 /\ f.max_spread_ratio_ = 30 => "A" \notin Range(out)

\* C20 witness: with ceiling 0.01 the pair whose spread is exactly 1% (B,
\* bid 99, ask 100) is kept next to A and C
C20_Witness ==
    /\ Returned("main")
    /\ loc["main"].filter = SpreadFilter(100)
    /\ loc["main"].tickers = TickersABC
    /\ loc["main"].all_pairs = << "A", "B", "C" >>
    /\ loc["main"].filtered_pairs = << "A", "B", "C" >>

\* the filters that read the ticker map, and those that must not
TickerFilters == { "VolumePairList", "SpreadFilter", "PriceFilter", "VolatilityFilter" }

TickerFreeFilters ==
    { "StaticPairList", "BlacklistFilter", "AgeFilter", "OffsetFilter",
      "PerformanceFilter", "ProducerPairList", "MarketCapPairList" }

\* C18: VolumePairList, SpreadFilter, PriceFilter and VolatilityFilter never
\* return a pair that has no ticker; what StaticPairList, BlacklistFilter,
\* AgeFilter, OffsetFilter, PerformanceFilter, ProducerPairList and
\* MarketCapPairList return is what they would return on any other ticker map
C18_MissingTickerPolicy ==
    \A t \in Callers :
        Returned(t) =>
        LET f == loc[t].filter
            in == loc[t].all_pairs
            out == loc[t].filtered_pairs
        IN /\ f.name \in TickerFilters =>
                 \A p \in Range(in) \ DOMAIN loc[t].tickers : p \notin Range(out)
           /\ f.name \in TickerFreeFilters =>
                 \A other \in TickerMaps :
                     out \in FilterResults(f, in, other, now, sort_ties)

\* C18 witness: a price filter that accepts every price has dropped C, the
\* one pair without ticker
C18_Witness ==
    /\ Returned("main")
    /\ loc["main"].filter = PriceFilter(0, DoubleMax)
    /\ loc["main"].tickers = TickersAB
    /\ loc["main"].all_pairs = << "A", "C", "B" >>
    /\ loc["main"].filtered_pairs = << "A", "B" >>

(***************************************************************************)
(* One caller refreshing through chains that hold filters whose external   *)
(* provider was never set.                                                 *)
(***************************************************************************)
\* the filters constructed without their provider, and one that needs none
UnsetFilters ==
    { AgeFilter(1, NoProvider), PerformanceFilter(0, NoProvider),
      MarketCapPairList(1, 10, NoProvider), ProducerPairList(NoProvider) }

\* the chains: up to MaxChain filters, at least one of them without provider
UnsetChains ==
    { c \in SeqsUpTo(UnsetFilters \cup { BlacklistFilter(<< "A" >>) }, MaxChain) :
        \E i \in 1..Len(c) : c[i] \in UnsetFilters }

InitUnset ==
    /\ now = 0
    /\ Constructed
    /\ filters_ \in UnsetChains
    /\ market_provider_ \in { Provider(MarketsAB), Provider(MarketsRanked),
                              Provider(MarketsInactive) }
    /\ ticker_provider_ = Provider(TickersAB)
    /\ sort_ties = "stable"

\* the steps of thread t inside refresh()
RefreshStep_of(t) ==
    \/ refresh_markets(t)
    \/ refresh_nopairs(t)
    \/ refresh_tickers(t)
    \/ refresh_loop(t)
    \/ refresh_filter(t)
    \/ refresh_lock(t)
    \/ refresh_publish(t)
    \/ refresh_stamp(t)
    \/ refresh_count(t)

\* the steps of the caller inside refresh()
RefreshStep ==
    \/ refresh_markets("main")
    \/ refresh_nopairs("main")
    \/ refresh_tickers("main")
    \/ refresh_loop("main")
    \/ refresh_filter("main")
    \/ refresh_lock("main")
    \/ refresh_publish("main")
    \/ refresh_stamp("main")
    \/ refresh_count("main")

NextUnset ==
    \/ refresh_call("main")
    \/ RefreshStep

\* a thread inside refresh() keeps running
SpecUnset == InitUnset /\ [][NextUnset]_vars /\ WF_vars(RefreshStep)

\* the filter the fold is about to apply has no provider
AtUnsetFilter(t) ==
    /\ pc[t] = "r_filter"
    /\ loc[t].chain[loc[t].it] \in UnsetFilters

\* C17: with its provider unset, AgeFilter, PerformanceFilter and
\* MarketCapPairList return their input unchanged and ProducerPairList
\* returns the empty list, the call returns into the fold without a fault,
\* and the refresh() that got active pairs goes on to publish and returns
C17_UnsetProviderDegrades ==
    /\ [][ \A t \in Callers :
             AtUnsetFilter(t) =>
                /\ loc'[t].filtered_pairs =
                      IF loc[t].chain[loc[t].it].name = "ProducerPairList"
                      THEN << >> ELSE loc[t].filtered_pairs
                /\ pc'[t] = "r_loop"
                /\ ~crashed' ]_vars
    /\ [][ \A t \in Callers :
             pc[t] = "r_publish" => pairs_' = loc[t].filtered_pairs ]_vars
    /\ (pc["main"] = "r_tickers") ~> (pc["main"] = "r_count")
    /\ (pc["main"] = "r_markets") ~> (pc["main"] = "idle")

\* C17 witness: a refresh() through an AgeFilter and a PerformanceFilter,
\* both without provider, has published the four active pairs
C17_Witness ==
    /\ pc["main"] = "r_stamp"
    /\ filters_ = << AgeFilter(1, NoProvider), PerformanceFilter(0, NoProvider) >>
    /\ filter_count_ = 2
    /\ pairs_ = << "A", "B", "C", "D" >>

(***************************************************************************)
(* One caller refreshing while the providers return lists that name a      *)
(* symbol twice.                                                           *)
(***************************************************************************)
\* a market snapshot that lists A twice
MarketsDup ==
    << MarketInfo("A", TRUE, 0, 1000, 5), MarketInfo("B", TRUE, 0, 2000, 15),
       MarketInfo("A", TRUE, 0, 1000, 5) >>

UniqueChains ==
    { << BlacklistFilter(<< "B" >>) >>,
      << PriceFilter(0, DoubleMax), OffsetFilter(0, 0) >>,
      << ProducerPairList(Provider(<< "C", "C" >>)) >>,
      << ProducerPairList(Provider(<< "C", "A" >>)), AgeFilter(1, NoProvider) >> }

InitUnique ==
    /\ now = 0
    /\ Constructed
    /\ filters_ \in UniqueChains
    /\ market_provider_ \in { Provider(MarketsAB), Provider(MarketsDup),
                              Provider(MarketsInactive) }
    /\ ticker_provider_ = Provider(TickersAB)
    /\ sort_ties = "stable"

NextUnique ==
    \/ refresh_call("main")
    \/ RefreshStep

SpecUnique == InitUnique /\ [][NextUnique]_vars

\* C21: the working set at every stage of a run, and every published list,
\* holds no symbol more than once, whatever the market provider and the
\* filters' providers return
C21_WorkingSetUnique ==
    /\ NoRepeat(pairs_)
    /\ \A t \in Threads :
          /\ NoRepeat(loc[t].all_pairs)
          /\ NoRepeat(loc[t].filtered_pairs)

(***************************************************************************)
(* Properties of starting and stopping, checked under SpecStartStop.       *)
(***************************************************************************)
\* the background threads that exist (started and not yet joined)
LoopThreads == { l \in Loops : pc[l] # "unborn" }

\* C22: at most one background loop thread exists at any time;
\* startAutoRefresh() while a loop is running creates no thread and leaves
\* the interval unchanged; every startAutoRefresh() that starts a thread,
\* also one that follows a stop, leaves exactly one running loop
C22_AtMostOneLoop ==
    /\ [](Cardinality(LoopThreads) <= 1)
    /\ [][ \A t \in Callers :
             /\ (pc[t] = "s_check" /\ pc'[t] # "s_check" /\ auto_refresh_running_)
                   => /\ pc'[t] = "idle"
                      /\ LoopThreads' = LoopThreads
                      /\ UNCHANGED << refresh_interval_, auto_refresh_thread_,
                                      auto_refresh_running_ >>
             /\ (pc[t] = "s_spawn" /\ pc'[t] = "idle")
                   => /\ Cardinality({ l \in Loops : LoopAlive(l) }') = 1
                      /\ auto_refresh_running_'
                      /\ ~crashed' ]_vars

\* C22 witness: startAutoRefresh(2) is at its test while the loop started
\* with interval 1 is running and has refreshed
C22_Witness ==
    /\ pc["main"] = "s_check"
    /\ loc["main"].arg = 2
    /\ auto_refresh_running_
    /\ refresh_interval_ = 1
    /\ refresh_count_ >= 1
    /\ LoopAlive("loop1")

(***************************************************************************)
(* One caller building the chain, refreshing, and reading the statistics   *)
(* and the published list.                                                 *)
(***************************************************************************)
\* the documents loaded: two known entries; a known entry followed by one
\* whose option has the wrong type; no entry at all
StatConfigs ==
    { JObj([pairlist_filters |->
              JArr(<< JObj([method |-> JStr("OffsetFilter"), offset |-> JNum(1)]),
                      JObj([method |-> JStr("BlacklistFilter"),
                            blacklist |-> JArr(<< JStr("A") >>)]) >>)]),
      JObj([pairlist_filters |->
              JArr(<< JObj([method |-> JStr("BlacklistFilter"),
                            blacklist |-> JArr(<< JStr("A") >>)]),
                      JObj([method |-> JStr("VolumePairList"),
                            number_assets |-> JStr("abc")]) >>)]),
      JObj([refresh_period |-> JNum(60)]) }

InitStats ==
    /\ now = 0
    /\ Constructed
    /\ filters_ = << >>
    /\ market_provider_ \in { Provider(MarketsAB), Provider(MarketsInactive) }
    /\ ticker_provider_ = Provider(TickersAB)
    /\ sort_ties = "stable"

NextStats ==
    \/ \E f \in AddableFilters : addFilter_call("main", f)
    \/ addFilter_lock("main")
    \/ addFilter_push("main")
    \/ clearFilters_call("main")
    \/ clearFilters_clear("main")
    \/ \E config \in StatConfigs : loadFromConfig_call("main", config)
    \/ loadFromConfig_lock("main")
    \/ loadFromConfig_clear("main")
    \/ loadFromConfig_entry("main")
    \/ loadFromConfig_period("main")
    \/ loadFromConfig_return("main")
    \/ refresh_call("main")
    \/ RefreshStep
    \/ getStatistics_lock("main")
    \/ getStatistics_return("main")
    \/ getStatistics_done("main")
    \/ getPairs_lock("main")
    \/ getPairs_return("main")

SpecStats == InitStats /\ [][NextStats]_vars

\* C23: the snapshot getStatistics() returns lists the names of the chain's
\* filters in chain order, its filter_count is the chain's length, and its
\* pair_count is the length of the list getPairs() returns in that state
C23_StatisticsMatchChain ==
    /\ [](\A t \in Callers :
            pc[t] = "gs_ret" =>
               LET stats == loc[t].stats
               IN /\ Len(stats.filters) = Len(filters_)
                  /\ \A i \in 1..Len(filters_) : stats.filters[i] = filters_[i].name
                  /\ stats.filter_count = Len(stats.filters)
                  /\ stats.pair_count = Len(pairs_))
    /\ [][ \A t \in Callers :
             (pc[t] = "g_read" /\ pc'[t] = "idle") => loc'[t].seen = pairs_ ]_vars

\* C23 witness: after a load of two entries and a refresh that published one
\* pair, the snapshot names OffsetFilter then BlacklistFilter
C23_Witness ==
    /\ pc["main"] = "gs_ret"
    /\ loc["main"].stats.filters = << "OffsetFilter", "BlacklistFilter" >>
    /\ loc["main"].stats.filter_count = 2
    /\ loc["main"].stats.total_filter_executions >= 2
    /\ loc["main"].stats.pair_count = 1
    /\ loc["main"].seen = pairs_

(***************************************************************************)
(* One caller refreshing by hand and starting the background loop while    *)
(* providers fail.                                                         *)
(***************************************************************************)
ThrowChains ==
    { << BlacklistFilter(<< "B" >>) >>,
      << BlacklistFilter(<< "B" >>), ProducerPairList(ThrowingProvider) >> }

\* what the market provider does from one call to the next
ThrowMarketProviders == { Provider(MarketsAB), Provider(MarketsInactive), ThrowingProvider }

InitThrow ==
    /\ now = 0
    /\ Constructed
    /\ filters_ \in ThrowChains
    /\ market_provider_ = Provider(MarketsAB)
    /\ ticker_provider_ \in { Provider(TickersAB), ThrowingProvider }
    /\ sort_ties = "stable"

\* the filter runs of the failing refreshes are counted too; the runs stop
\* once the counter has reached what MaxRefresh whole runs would give
NextThrow ==
    \/ filter_count_ < MaxRefresh * MaxChain /\ refresh_call("main")
    \/ \E t \in Threads : RefreshStep_of(t)
    \/ \E t \in Threads : refresh_threw(t)
    \/ startAutoRefresh_call("main")
    \/ startAutoRefresh_check("main")
    \/ startAutoRefresh_interval("main")
    \/ startAutoRefresh_flag("main")
    \/ startAutoRefresh_spawn("main")
    \/ filter_count_ < MaxRefresh * MaxChain
          /\ \E l \in Loops : autoRefreshLoop_while(l)
    \/ \E l \in Loops : autoRefreshLoop_sleep(l)
    \/ \E p \in ThrowMarketProviders : setMarketProvider(p)

SpecThrow == InitThrow /\ [][NextThrow]_vars

\* C24: refresh() called directly is never left by an exception, and the
\* step by which a run fails leaves the published list and refresh_count as
\* they were
C24_RefreshNeverRaises ==
    /\ [](\A t \in Callers : pc[t] # "r_threw")
    /\ [][ \A t \in Threads :
             (pc'[t] # pc[t] /\ "r_threw" \in { pc[t], pc'[t] })
                => UNCHANGED << pairs_, refresh_count_ >> ]_vars

(***************************************************************************)
(* One caller loading, changing and querying the ConfigManager.            *)
(***************************************************************************)
\* the keys of config_test.cpp (Validate): one piece per run of characters
ExchangeName == << "exchange", ".", "name" >>

ExchangeTimeout == << "exchange", ".", "timeout" >>

RiskMaxOrder == << "risk", ".", "max_order" >>

MissingKey == << "missing", ".", "key" >>

RequiredKeys == << ExchangeName, ExchangeTimeout, RiskMaxOrder >>

\* the document of TEST_F(ConfigTest, Validate): three members whose names
\* hold a dot
FlatDocument ==
    JObj([m \in { ExchangeName, ExchangeTimeout, RiskMaxOrder } |->
            IF m = ExchangeName THEN JStr("binance")
            ELSE IF m = ExchangeTimeout THEN JNum(5000) ELSE JNum(1000)])

\* the same settings as nested objects
NestedDocument ==
    JObj([m \in { << "exchange" >>, << "risk" >> } |->
            IF m = << "exchange" >>
            THEN JObj([n \in { << "name" >>, << "timeout" >> } |->
                         IF n = << "name" >> THEN JStr("binance") ELSE JNum(5000)])
            ELSE JObj([n \in { << "max_order" >> } |-> JNum(1000)])])

\* a patch that removes exchange.timeout
PatchDocument ==
    JObj([m \in { << "exchange" >> } |->
            JObj([n \in { << "timeout" >> } |-> JNull])])

ConfigTexts == { Text(FlatDocument), Text(NestedDocument), Text(PatchDocument), BadText }

KeyLists ==
    { << >>, RequiredKeys, Append(RequiredKeys, MissingKey),
      << RiskMaxOrder, ExchangeTimeout >> }

SetKeys == { ExchangeTimeout, << "exchange" >> }

InitConfig ==
    /\ now = 0
    /\ Constructed
    /\ filters_ = << >>
    /\ market_provider_ = NoProvider
    /\ ticker_provider_ = NoProvider
    /\ sort_ties = "stable"

NextConfig ==
    \/ \E json_str \in ConfigTexts, merge \in BOOLEAN :
          loadFromString_lock("main", json_str, merge)
    \/ loadFromString_body("main")
    \/ \E key \in SetKeys : set_lock("main", key, JNum(30))
    \/ set_body("main")
    \/ clear_lock("main")
    \/ clear_body("main")
    \/ \E key \in SetKeys \cup { MissingKey } : has_lock("main", key)
    \/ has_body("main")
    \/ \E key \in SetKeys : get_lock("main", key)
    \/ get_body("main")
    \/ \E required_keys \in KeyLists : validate_call("main", required_keys)
    \/ validate_loop("main")
    \/ validate_has("main")
    \/ ConfigManager_return("main")

SpecConfig == InitConfig /\ [][NextConfig]_vars

\* the key names a setting of the configuration: a member of the loaded
\* object by its full name, or a member reached by the dotted path
Present(config, key) ==
    \/ contains(config, key)
    \/ getValue(config, key).type # "null"

\* C25: validate(keys) returns true when every key is present in the loaded
\* configuration and false when one is missing; for the object whose members
\* are named exchange.name, exchange.timeout and risk.max_order it returns
\* true on those three names and false with missing.key added
C25_ValidateAllPresent ==
    [][ \A t \in Callers :
          (pc[t] \in { "v_loop", "v_has" } /\ pc'[t] = "cm_ret") =>
             /\ loc'[t].result =
                   Bool(\A i \in 1..Len(loc[t].keys) : Present(config_, loc[t].keys[i]))
             /\ (config_ = FlatDocument /\ loc[t].keys = RequiredKeys)
                   => loc'[t].result = "true"
             /\ (config_ = FlatDocument
                   /\ loc[t].keys = Append(RequiredKeys, MissingKey))
                   => loc'[t].result = "false" ]_vars

(***************************************************************************)
(* Two callers of the one ConfigManager: main loads files, sets and        *)
(* clears; aux reloads and reads through getSummary and getConfig.         *)
(***************************************************************************)
\* the files main names: one that parses, one that does not, one that is
\* not there
ConfigPaths == DOMAIN Files \cup { "none.json" }

InitShared == InitConfig

NextShared ==
    \/ \E config_path \in ConfigPaths, merge \in BOOLEAN :
          loadFromFile_call("main", config_path, merge)
    \/ \E t \in Callers : loadFromFile_lock(t)
    \/ \E t \in Callers : loadFromFile_body(t)
    \/ set_lock("main", ExchangeTimeout, JNum(30))
    \/ set_body("main")
    \/ clear_lock("main")
    \/ clear_body("main")
    \/ reload_call("aux")
    \/ reload_check("aux")
    \/ getConfig_lock("aux")
    \/ getConfig_return("aux")
    \/ getConfig_use("aux")
    \/ getSummary_lock("aux")
    \/ getSummary_body("aux")
    \/ \E t \in Callers : ConfigManager_return(t)

SpecShared == InitShared /\ [][NextShared]_vars

\* the members of the ConfigManager a thread at this position reads or
\* writes in its next step
ConfigTouches(at) ==
    CASE at = "ls_body"  -> { "config_" }                       \* 58-65
      [] at = "lf_body"  -> { "config_", "config_file_path_" }  \* 31-40
      [] at = "rl_check" -> { "config_file_path_" }             \* 119
      [] at = "set_body" -> { "config_" }                       \* 208
      [] at = "cl_body"  -> { "config_", "config_file_path_" }  \* 113-114
      [] at = "h_body"   -> { "config_" }                       \* 100
      [] at = "get_body" -> { "config_" }                       \* config.h 150
      [] at = "v_has"    -> { "config_" }                       \* 100
      [] at = "gc_use"   -> { "config_" }                       \* the reference
      [] at = "sum_body" -> { "config_", "config_file_path_" }  \* 141-148
      [] OTHER           -> { }

\* C26: every access to the configuration object and to the stored file
\* path, by a writer (loadFromFile, loadFromString, set, clear, reload) or a
\* reader (get, has, validate, getSummary, a user of getConfig()), happens
\* while the accessing thread holds the mutex.
C26_ConfigAccessUnderMutex ==
    \A t \in Callers : ConfigTouches(pc[t]) # { } => config_mutex_ = t

\* the race: aux reads the stored path in reload(), or the configuration
\* through the reference of getConfig(), while main holds the mutex and
\* writes that member
C26_Race ==
    /\ pc["main"] \in { "cl_body", "lf_body" }
    /\ pc["aux"] \in { "rl_check", "gc_use" }
    /\ config_mutex_ = "main"
(***************************************************************************)
(* The background loop over providers that fail, return nothing or         *)
(* succeed, with one caller starting and stopping it.  The scheduler runs  *)
(* a thread that can take a step: weak fairness on the loop's steps.       *)
(***************************************************************************)
\* a chain that runs, and a chain whose first filter throws
LoopChains ==
    { << BlacklistFilter(<< "B" >>) >>, << ProducerPairList(ThrowingProvider) >> }

InitLoop ==
    /\ now = 0
    /\ Constructed
    /\ filters_ \in LoopChains
    /\ market_provider_ \in ThrowMarketProviders
    /\ ticker_provider_ = Provider(TickersAB)
    /\ sort_ties = "stable"

\* the steps of the background thread, the handler of 313-316 included
LoopStepCatching(l) ==
    \/ LoopStep(l)
    \/ refresh_threw(l)

NextLoop ==
    \/ \E t \in { "main" } : ControlStep(t)
    \/ \E l \in Loops : LoopStepCatching(l)
    \/ \E p \in ThrowMarketProviders : setMarketProvider(p)

SpecLoop ==
    InitLoop /\ [][NextLoop]_vars /\ WF_vars(\E l \in Loops : LoopStepCatching(l))

\* thread l has just ended a refresh (by an exception, early, or after
\* publishing) or is sleeping
AfterRefresh(l) == pc[l] \in { "r_threw", "r_nopairs", "r_count", "l_sleep" }

OffsetCases ==
    { OffsetFilter(k, n) : k \in (0 - 2)..(MaxLen + 1), n \in (0 - 1)..(MaxAssets + 1) }
    \cup { OffsetFilter(k, IntMax) : k \in { 0 - 1, 0, 1 } }
    \cup { OffsetFilter(IntMax, IntMax), OffsetFilter(0 - IntMax, 1) }

InitOffset == InitFilter

NextOffset ==
    \/ /\ pc["main"] = "idle"
       /\ \E f \in OffsetCases, pairs \in InputLists :
             filter_call("main", f, pairs, << >>)
    \/ filter_return("main")
    \/ filter_done("main")

SpecOffset == InitOffset /\ [][NextOffset]_vars

\* out is a run of consecutive elements of in
Contiguous(out, in) ==
    \E k \in 0..Len(in) : \E n \in 0..(Len(in) - k) : out = Slice(in, k, n)

\* C30: for every configured offset and number_assets, negative ones and
\* ones whose sum leaves the range of int included, every position
\* OffsetFilter reads is a position of its input (0 .. length - 1) and the
\* list it returns is a run of consecutive elements of the input
C30_OffsetReadsInside ==
    \A t \in Callers :
        (Returned(t) /\ loc[t].filter.name = "OffsetFilter") =>
            /\ \A reads \in OffsetFilter_reads(loc[t].filter, loc[t].all_pairs) :
                  reads \subseteq 0..(Len(loc[t].all_pairs) - 1)
            /\ Contiguous(loc[t].filtered_pairs, loc[t].all_pairs)
(***************************************************************************)
(* A refresh by hand on one thread while another thread changes the        *)
(* chain with addFilter, clearFilters and loadFromConfig.                  *)
(***************************************************************************)
\* the chain in place: [A, B] folds to [A]
RaceChain == << BlacklistFilter(<< "B" >>), StaticPairListFilter(<< "A" >>) >>

\* the document loaded meanwhile: OffsetFilter(1) then BlacklistFilter(A),
\* [A, B] folds to [B]
RaceConfig ==
    JObj([pairlist_filters |->
            JArr(<< JObj([method |-> JStr("OffsetFilter"), offset |-> JNum(1)]),
                    JObj([method |-> JStr("BlacklistFilter"),
                          blacklist |-> JArr(<< JStr("A") >>)]) >>)])

InitRace ==
    /\ now = 0
    /\ Constructed
    /\ filters_ = RaceChain
    /\ market_provider_ \in { Provider(MarketsAB), Provider(MarketsInactive) }
    /\ ticker_provider_ = Provider(TickersAB)
    /\ sort_ties = "stable"

NextRace ==
    \/ refresh_call("main")
    \/ RefreshStep
    \/ \E f \in AddableFilters : addFilter_call("aux", f)
    \/ addFilter_lock("aux")
    \/ addFilter_push("aux")
    \/ clearFilters_call("aux")
    \/ clearFilters_clear("aux")
    \/ loadFromConfig_call("aux", RaceConfig)
    \/ loadFromConfig_lock("aux")
    \/ loadFromConfig_clear("aux")
    \/ loadFromConfig_entry("aux")
    \/ loadFromConfig_period("aux")
    \/ loadFromConfig_return("aux")

SpecRace == InitRace /\ [][NextRace]_vars

\* thread t is between begin() of 228 and the end of the range-for
Iterating(t) == pc[t] \in { "r_loop", "r_filter" }

\* thread u is inside loadFromConfig between its clearFilters() and its last
\* push_back: the chain is neither the old nor the new one
MidLoad(u) == pc[u] = "lc_entry"

\* C28: a refresh() that runs while another thread calls addFilter,
\* clearFilters or loadFromConfig takes the chain at a moment when no load
\* is half done, the chain is not changed while the refresh iterates it,
\* every filter it runs is the one of the chain it took (no mixture of the
\* old and the new chain), and the iteration never faults.
C28_RefreshSeesOneChain ==
    /\ [][ \A t \in Threads :
             /\ (pc[t] = "r_tickers" /\ pc'[t] = "r_loop")
                   => \A u \in Threads \ { t } : ~MidLoad(u)
             /\ Iterating(t) => filters_' = filters_
             /\ (Iterating(t) /\ Iterating(t)') => loc'[t].chain = loc[t].chain
          ]_vars
    /\ [](~crashed)

\* the list published is that of neither chain: BlacklistFilter(B) of the
\* old chain, then BlacklistFilter(A) of the new one, leave nothing of [A, B]
C28_Mixture ==
    /\ pc["main"] = "r_publish"
    /\ loc["main"].chain = << BlacklistFilter(<< "B" >>), BlacklistFilter(<< "A" >>) >>
    /\ loc["main"].filtered_pairs = << >>
(***************************************************************************)
(* One thread refreshing by hand while another reads getStatistics().      *)
(***************************************************************************)
InitSnap ==
    /\ now = 0
    /\ Constructed
    /\ filters_ \in { RaceChain, << BlacklistFilter(<< "B" >>) >> }
    /\ market_provider_ \in { Provider(MarketsAB), Provider(MarketsInactive) }
    /\ ticker_provider_ = Provider(TickersAB)
    /\ sort_ties = "stable"

NextSnap ==
    \/ refresh_call("main")
    \/ RefreshStep
    \/ getStatistics_lock("aux")
    \/ getStatistics_return("aux")
    \/ getStatistics_done("aux")
    \/ \E p \in { Provider(MarketsAB), Provider(MarketsInactive) } : setMarketProvider(p)

SpecSnap == InitSnap /\ [][NextSnap]_vars

\* the refreshes whose list is published: those counted at 246, and the one
\* of a thread that has left the block of 240-244 and not yet reached 246
Published ==
    refresh_count_ + Cardinality({ t \in Threads : pc[t] = "r_count" })

RECURSIVE RunsOf(_)
\* the filter runs (236) of the refreshes of the threads in S that are in
\* their fold or wait for the lock of 241: counted, their list not published
RunsOf(S) ==
    IF S = { } THEN 0
    ELSE LET t == CHOOSE u \in S : TRUE
         IN (IF pc[t] \in { "r_loop", "r_filter", "r_lock" } THEN loc[t].it - 1 ELSE 0)
            + RunsOf(S \ { t })

\* C29: the snapshot getStatistics() builds has a refresh_count equal to the
\* number of refreshes whose list is published at that moment (never a new
\* list with a count that misses its refresh), and a
\* total_filter_executions without the runs of a refresh whose list is not
\* yet published.
C29_SnapshotConsistent ==
    [][ \A t \in Callers :
          (pc[t] = "gs_read" /\ pc'[t] = "gs_ret") =>
             /\ loc'[t].stats.refresh_count = Published
             /\ loc'[t].stats.total_filter_executions = filter_count_ - RunsOf(Threads)
      ]_vars

\* the snapshot shows the list of the first refresh, one pair, and
\* refresh_count 0
C29_Stale ==
    /\ pc["aux"] = "gs_ret"
    /\ pc["main"] = "r_count"
    /\ loc["aux"].stats.pair_count = 1
    /\ loc["aux"].stats.refresh_count = 0
=============================================================================
